---- MODULE Spec2Model ----
(***************************************************************************)
(* A model of the jijnasaai chat gateway: the four provider adapters       *)
(* (backend/services/providers), the router (backend/services/             *)
(* llm_router.py), the conversation store and the cost log (backend/       *)
(* services/conversation_service.py, cost_tracker.py, database.py), the    *)
(* chat orchestrator (backend/routers/chat.py) and the comparison view of  *)
(* the frontend (frontend/components/chat_view.py).                        *)
(*                                                                         *)
(* Conventions.  A Python value that may be None is a sequence of length   *)
(* at most one: <<>> is None and <<v>> is v.  Text is a TLA+ string, the   *)
(* empty string being falsy like in Python.  Money is an integer number    *)
(* of 1e-8 USD, the resolution calculate_chat_cost rounds to.              *)
(***************************************************************************)
EXTENDS Integers, Sequences, FiniteSets, TLC

VARIABLES
    a_prov,         \* adapter run: the provider whose stream_chat is running
    a_backend,      \* adapter run: what the upstream backend answers
    a_pc,           \* adapter run: "run", "done" (generator exhausted), "raised"
    a_out,          \* adapter run: the chunks yielded so far
    a_rest,         \* adapter run: the chunks the generator has still to yield
    call,           \* a service method called on its own: its arguments and result
    settings,       \* Settings: max_daily_spend_usd and the providers with an API key
    clock,          \* the server's clock: [day, sec], what datetime('now') reads
    conversations,  \* table conversations: id -> row
    messages,       \* table messages, in insert order
    cost_log,       \* table cost_log, in insert order
    ids,            \* the ids handed out so far: uuid4 draws and the AUTOINCREMENT
    turn,           \* client -> the /chat/completions request it has in flight
    requests,       \* the number of chat requests started
    faults,         \* the number of storage operations that raised
    spend_peak,     \* the largest value today's cost_log total had so far today
    compare         \* the frontend's comparison run: its slots, buffers and threads

adapterVars == <<a_prov, a_backend, a_pc, a_out, a_rest, call>>

storeVars == <<conversations, messages, cost_log>>

vars == <<a_prov, a_backend, a_pc, a_out, a_rest, call, settings, clock, conversations,
          messages, cost_log, ids, turn, requests, faults, spend_peak, compare>>

(***************************************************************************)
(* Bounds.                                                                 *)
(***************************************************************************)
MaxChunks == 2      \* backend chunks per upstream stream

None == <<>>
Some(v) == <<v>>

RECURSIVE Flatten(_)
Flatten(ss) == IF ss = <<>> THEN <<>> ELSE Head(ss) \o Flatten(Tail(ss))

SeqsUpTo(S, n) == UNION {[1..k -> S] : k \in 0..n}

(***************************************************************************)
(* StreamChunk (providers/base.py): the normalized chunk.                  *)
(***************************************************************************)
StreamChunk ==
    [text |-> "", is_final |-> FALSE, input_tokens |-> 0, output_tokens |-> 0,
     finish_reason |-> None, citations |-> <<>>]

TextChunk(t) == [StreamChunk EXCEPT !.text = t]

FinalChunk(i, o, c) ==
    [StreamChunk EXCEPT !.is_final = TRUE, !.input_tokens = i,
                        !.output_tokens = o, !.citations = c]

Providers == {"openai", "anthropic", "google", "perplexity"}

Failures == {"none", "timeout", "error"}

(***************************************************************************)
(* Adapter A: OpenAIProvider.stream_chat.  The backend is a stream of      *)
(* chat.completion.chunk objects; with include_usage the usage block       *)
(* comes on one extra chunk, the last one, and is null on all others.      *)
(* The stream may break off with an exception at any point.                *)
(***************************************************************************)
OpenAIUsageChunk ==
    [usage |-> Some([prompt_tokens |-> 10, completion_tokens |-> 5]),
     choices |-> <<>>]

OpenAIBodyChunks ==
    { [usage |-> None, choices |-> <<[content |-> Some("a"), finish_reason |-> None]>>],
      [usage |-> None, choices |-> <<[content |-> Some(""), finish_reason |-> None]>>],
      [usage |-> None, choices |-> <<[content |-> None, finish_reason |-> Some("stop")]>>],
      [usage |-> None, choices |-> <<>>] }

OpenAIBackends ==
    { [items |-> body \o tail, fail |-> f] :
        body \in SeqsUpTo(OpenAIBodyChunks, MaxChunks),
        tail \in {<<>>, <<OpenAIUsageChunk>>},
        f \in Failures }

\* the body of the `async for chunk in stream` loop: what one chunk yields
OpenAIYield(chunk) ==
    IF chunk.usage # None
    THEN <<FinalChunk(chunk.usage[1].prompt_tokens,
                      chunk.usage[1].completion_tokens, <<>>)>>
    ELSE IF chunk.choices # <<>> /\ chunk.choices[1].content # None
    THEN <<TextChunk(chunk.choices[1].content[1])>>
    ELSE IF chunk.choices # <<>> /\ chunk.choices[1].finish_reason # None
    THEN <<[StreamChunk EXCEPT !.finish_reason = chunk.choices[1].finish_reason]>>
    ELSE <<>>

OpenAIStreamChat(b) ==
    [chunks |-> Flatten([k \in 1..Len(b.items) |-> OpenAIYield(b.items[k])]),
     raised |-> b.fail # "none"]

(***************************************************************************)
(* Adapter B: AnthropicProvider.stream_chat.  The backend yields text      *)
(* fragments and, once the text stream is exhausted, a final message with  *)
(* the usage.  Opening the stream, reading it or fetching the final        *)
(* message may raise: the fragments before the failure were delivered.     *)
(***************************************************************************)
AnthropicBackends ==
    { [texts |-> ts, usage |-> [input_tokens |-> 10, output_tokens |-> 5], fail |-> f] :
        ts \in SeqsUpTo({"a", "b"}, MaxChunks), f \in Failures }

AnthropicStreamChat(b) ==
    [chunks |-> [k \in 1..Len(b.texts) |-> TextChunk(b.texts[k])]
                \o (IF b.fail = "none"
                    THEN <<FinalChunk(b.usage.input_tokens, b.usage.output_tokens, <<>>)>>
                    ELSE <<>>),
     raised |-> b.fail # "none"]

(***************************************************************************)
(* Adapter C: GeminiProvider.stream_chat.  _sync_stream collects the whole *)
(* backend iteration on a worker and re-raises what the backend raises;    *)
(* only then are the chunks walked.  A backend chunk carries text, maybe   *)
(* usage_metadata (whose counts may be missing) and the web entries of     *)
(* the grounding chunks of its candidates, in order.                       *)
(***************************************************************************)
GeminiGroundings ==
    { <<>>,
      <<[uri |-> Some("A"), title |-> Some("t1")]>>,
      <<[uri |-> Some("A"), title |-> Some("t2")], [uri |-> Some("B"), title |-> None]>>,
      <<[uri |-> None, title |-> Some("t1")], [uri |-> Some("A"), title |-> Some("t1")]>> }

GeminiUsages ==
    { None,
      Some([prompt_token_count |-> Some(10), candidates_token_count |-> Some(5)]),
      Some([prompt_token_count |-> None, candidates_token_count |-> None]) }

GeminiChunks ==
    [text : {"", "a"}, usage_metadata : GeminiUsages, grounding : GeminiGroundings]

GeminiBackends ==
    [chunks : SeqsUpTo(GeminiChunks, MaxChunks), fail : Failures]

OrZero(opt) == IF opt = None THEN 0 ELSE opt[1]

OrEmpty(opt) == IF opt = None THEN "" ELSE opt[1]

InSeq(x, s) == \E k \in 1..Len(s) : s[k] = x

\* gemini_provider.py 96-106: one web entry of a grounding chunk
GeminiAddCitation(cites, web) ==
    LET citation == [url |-> OrEmpty(web.uri), title |-> OrEmpty(web.title),
                     source |-> "google_search"]
    IN IF citation.url # "" /\ ~InSeq(citation, cites)
       THEN Append(cites, citation) ELSE cites

RECURSIVE GeminiCitations(_, _)
GeminiCitations(cites, webs) ==
    IF webs = <<>> THEN cites
    ELSE GeminiCitations(GeminiAddCitation(cites, Head(webs)), Tail(webs))

\* the `for chunk in chunks` loop: the state is (yielded, total_input,
\* total_output, grounding_citations)
RECURSIVE GeminiWalk(_, _)
GeminiWalk(chunks, st) ==
    IF chunks = <<>> THEN st
    ELSE LET c == Head(chunks)
             um == c.usage_metadata
         IN GeminiWalk(Tail(chunks),
              [yielded |-> IF c.text # "" THEN Append(st.yielded, TextChunk(c.text))
                           ELSE st.yielded,
               total_input |-> IF um # None THEN OrZero(um[1].prompt_token_count)
                               ELSE st.total_input,
               total_output |-> IF um # None THEN OrZero(um[1].candidates_token_count)
                                ELSE st.total_output,
               cites |-> GeminiCitations(st.cites, c.grounding)])

GeminiStreamChat(b) ==
    IF b.fail # "none"
    THEN [chunks |-> <<>>, raised |-> TRUE]
    ELSE LET st == GeminiWalk(b.chunks, [yielded |-> <<>>, total_input |-> 0,
                                         total_output |-> 0, cites |-> <<>>])
         IN [chunks |-> Append(st.yielded,
                               FinalChunk(st.total_input, st.total_output, st.cites)),
             raised |-> FALSE]

(***************************************************************************)
(* Adapter D: PerplexityProvider.stream_chat.  One non-streaming call      *)
(* under asyncio.wait_for; the response carries choices, usage and the     *)
(* citations either as an attribute or in model_extra.  A citation item is *)
(* a string (the URL), a dict with optional url and title, or anything     *)
(* else.                                                                   *)
(***************************************************************************)
MaxCites == 2       \* items of a backend citation list

PerplexityItems ==
    { [kind |-> "str", url |-> "A", title |-> None],
      [kind |-> "str", url |-> "B", title |-> None],
      [kind |-> "str", url |-> "", title |-> None],
      [kind |-> "dict", url |-> "A", title |-> Some("tA")],
      [kind |-> "dict", url |-> "B", title |-> None],
      [kind |-> "dict", url |-> "", title |-> Some("t0")],
      [kind |-> "other", url |-> "", title |-> None] }

PerplexityCitationLists ==
    SeqsUpTo(PerplexityItems, MaxCites)
    \cup { << [kind |-> "str", url |-> "A", title |-> None],
              [kind |-> "str", url |-> "A", title |-> None],
              [kind |-> "str", url |-> "B", title |-> None] >> }

PerplexityChoices ==
    { <<>>,
      <<[message |-> None]>>,
      <<[message |-> Some([content |-> None])]>>,
      <<[message |-> Some([content |-> Some("")])]>>,
      <<[message |-> Some([content |-> Some("a")])]>> }

PerplexityUsages ==
    { None,
      Some([prompt_tokens |-> Some(10), completion_tokens |-> Some(5)]),
      Some([prompt_tokens |-> None, completion_tokens |-> None]) }

PerplexityResponses ==
    { [choices |-> ch, citations |-> IF via = "attr" THEN c ELSE None,
       model_extra |-> [citations |-> IF via = "attr" THEN None ELSE c], usage |-> u] :
        ch \in PerplexityChoices,
        c \in {None} \cup {Some(l) : l \in PerplexityCitationLists},
        via \in {"attr", "model_extra"},
        u \in PerplexityUsages }

PerplexityBackends ==
    {[fail |-> "none", error |-> "", response |-> r] : r \in PerplexityResponses}
    \cup {[fail |-> "timeout", error |-> "", response |-> None],
          [fail |-> "error", error |-> "API key invalid", response |-> None]}

NoResponseText == "*No response received from Perplexity. Please try again.*"
TimeoutText == "*Request to Perplexity timed out. Please try again.*"
ErrorText(e) == "*Error from Perplexity: " \o e \o "*"

\* the text taken from the message whatever its content is
PerplexityTextOfAnyContent(response) ==
    IF response.choices # <<>> /\ response.choices[1].message # None
    THEN (IF response.choices[1].message[1].content = None THEN "None"
          ELSE response.choices[1].message[1].content[1])
    ELSE ""

\* perplexity_provider.py 78-84
PerplexityText(response) ==
    IF response.choices # <<>>
       /\ response.choices[1].message # None
       /\ OrEmpty(response.choices[1].message[1].content) # ""
    THEN response.choices[1].message[1].content[1]
    ELSE ""

CitationUrls(cites) == [k \in 1..Len(cites) |-> cites[k].url]

\* perplexity_provider.py 97-114: item i (0-based) of raw_citations
PerplexityAddCitation(cites, item, i) ==
    IF item.kind \in {"str", "dict"}
       /\ item.url # "" /\ ~InSeq(item.url, CitationUrls(cites))
    THEN Append(cites,
                [url |-> item.url,
                 title |-> IF item.kind = "dict" /\ item.title # None
                           THEN item.title[1]
                           ELSE "Source " \o ToString(i + 1),
                 source |-> "perplexity"])
    ELSE cites

RECURSIVE PerplexityCitations(_, _, _)
PerplexityCitations(cites, raw, i) ==
    IF i >= Len(raw) THEN cites
    ELSE PerplexityCitations(PerplexityAddCitation(cites, raw[i + 1], i), raw, i + 1)

\* an adapter that lets the failure of its backend call out
PerplexityStreamChatRaising(b) == [chunks |-> <<>>, raised |-> b.fail # "none"]

PerplexityStreamChat(b) ==
    IF b.fail = "timeout"
    THEN [chunks |-> <<TextChunk(TimeoutText), FinalChunk(0, 0, <<>>)>>, raised |-> FALSE]
    ELSE IF b.fail = "error"
    THEN [chunks |-> <<TextChunk(ErrorText(b.error)), FinalChunk(0, 0, <<>>)>>,
          raised |-> FALSE]
    ELSE LET response == b.response
             text == PerplexityText(response)
             raw_citations == IF response.citations # None /\ response.citations[1] # <<>>
                              THEN response.citations
                              ELSE response.model_extra.citations
             raw == IF raw_citations = None THEN <<>> ELSE raw_citations[1]
             citations == PerplexityCitations(<<>>, raw, 0)
             input_tokens == IF response.usage = None THEN 0
                             ELSE OrZero(response.usage[1].prompt_tokens)
             output_tokens == IF response.usage = None THEN 0
                              ELSE OrZero(response.usage[1].completion_tokens)
         IN [chunks |-> <<TextChunk(IF text # "" THEN text ELSE NoResponseText),
                          FinalChunk(input_tokens, output_tokens, citations)>>,
             raised |-> FALSE]

(***************************************************************************)
(* The adapter of a provider, and what its backend may answer.              *)
(***************************************************************************)
Backends(p) ==
    CASE p = "openai" -> OpenAIBackends
      [] p = "anthropic" -> AnthropicBackends
      [] p = "google" -> GeminiBackends
      [] p = "perplexity" -> PerplexityBackends

ProviderStreamChat(p, b) ==
    CASE p = "openai" -> OpenAIStreamChat(b)
      [] p = "anthropic" -> AnthropicStreamChat(b)
      [] p = "google" -> GeminiStreamChat(b)
      [] p = "perplexity" -> PerplexityStreamChat(b)

(***************************************************************************)
(* Provider Router (llm_router.py).  The catalog and the pricing book come *)
(* from the YAML overlay; the entries here are the ones the tests name.    *)
(***************************************************************************)
ModelsConfig ==
    << [id |-> "gpt-4o", provider |-> "openai", max_tokens |-> 4096],
       [id |-> "claude-sonnet-4-5-20250929", provider |-> "anthropic", max_tokens |-> 8192],
       [id |-> "gemini-2.0-flash", provider |-> "google", max_tokens |-> 8192],
       [id |-> "sonar", provider |-> "perplexity", max_tokens |-> 4096] >>

CatalogIds == {ModelsConfig[k].id : k \in 1..Len(ModelsConfig)}

\* _model_provider_map.get(model_id): None for an id outside the catalog
ModelProviderMap(model_id) ==
    IF model_id \in CatalogIds
    THEN LET last == CHOOSE k \in 1..Len(ModelsConfig) :
                         /\ ModelsConfig[k].id = model_id
                         /\ \A j \in (k + 1)..Len(ModelsConfig) : ModelsConfig[j].id # model_id
         IN Some(ModelsConfig[last].provider)
    ELSE None

\* a router that hands out an adapter whether or not its key is set
GetProviderUnchecked(keys, model_id) ==
    LET provider_name == ModelProviderMap(model_id)
    IN IF provider_name = None
       THEN [ok |-> FALSE, error |-> "Unknown model", provider |-> ""]
       ELSE [ok |-> TRUE, error |-> "", provider |-> provider_name[1]]

\* a router that falls back to the OpenAI adapter for an id outside the catalog
GetProviderWithFallback(keys, model_id) ==
    LET provider_name == ModelProviderMap(model_id)
    IN IF provider_name = None
       THEN [ok |-> TRUE, error |-> "", provider |-> "openai"]
       ELSE IF provider_name[1] \notin keys
       THEN [ok |-> FALSE, error |-> "Provider not configured", provider |-> provider_name[1]]
       ELSE [ok |-> TRUE, error |-> "", provider |-> provider_name[1]]

\* _get_provider: the adapter, or the ValueError it raises
GetProvider(keys, model_id) ==
    LET provider_name == ModelProviderMap(model_id)
    IN IF provider_name = None
       THEN [ok |-> FALSE, error |-> "Unknown model", provider |-> ""]
       ELSE IF provider_name[1] \notin keys
       THEN [ok |-> FALSE, error |-> "Provider not configured", provider |-> provider_name[1]]
       ELSE [ok |-> TRUE, error |-> "", provider |-> provider_name[1]]

GetAvailableModels(keys) ==
    SelectSeq(ModelsConfig, LAMBDA m : m.provider \in keys)

(***************************************************************************)
(* Pricing Book (cost_tracker.py).  Rates are 1e-9 USD per token (2.50     *)
(* USD per million tokens is 2500); a cost is a number of 1e-8 USD.        *)
(***************************************************************************)
PricingConfig ==
    [openai |-> [m \in {"gpt-4o"} |-> [input |-> 2500, output |-> 10000]],
     anthropic |-> [m \in {"claude-sonnet-4-5-20250929"} |-> [input |-> 3000, output |-> 15000]],
     google |-> [m \in {"gemini-2.0-flash"} |-> [input |-> 100, output |-> 400]]]

\* _get_model_pricing: {} for a model no provider section lists
GetModelPricing(model_id) ==
    LET hits == {p \in DOMAIN PricingConfig : model_id \in DOMAIN PricingConfig[p]}
    IN IF hits = {} THEN None ELSE Some(PricingConfig[CHOOSE p \in hits : TRUE][model_id])

\* round(x, 8) of x given in 1e-9 USD: to the nearest 1e-8, ties to even
Round8(nano) ==
    LET q == nano \div 10
        r == nano % 10
    IN IF r > 5 \/ (r = 5 /\ q % 2 = 1) THEN q + 1 ELSE q

\* a calculation that bills output tokens at the input rate
CalculateChatCostOneRate(model_id, input_tokens, output_tokens) ==
    LET pricing == GetModelPricing(model_id)
    IN IF pricing = None THEN 0
       ELSE Round8((input_tokens + output_tokens) * pricing[1].input)

\* a calculation that bills a model without pricing at a default rate
CalculateChatCostDefaultRate(model_id, input_tokens, output_tokens) ==
    LET pricing == GetModelPricing(model_id)
    IN IF pricing = None THEN Round8(input_tokens * 1000 + output_tokens * 1000)
       ELSE Round8(input_tokens * pricing[1].input + output_tokens * pricing[1].output)

CalculateChatCost(model_id, input_tokens, output_tokens) ==
    LET pricing == GetModelPricing(model_id)
    IN IF pricing = None THEN 0
       ELSE Round8(input_tokens * pricing[1].input + output_tokens * pricing[1].output)

(***************************************************************************)
(* The relational store (database.py) with the statements of               *)
(* ConversationService and CostTracker.  Every method opens its own        *)
(* connection and commits once, so each is one atomic step on the tables;  *)
(* foreign keys are enforced (PRAGMA foreign_keys=ON).                     *)
(***************************************************************************)
RECURSIVE SumOver(_, _)
SumOver(rows, field) ==
    IF rows = <<>> THEN 0 ELSE Head(rows)[field] + SumOver(Tail(rows), field)

ConversationRow(title, model_id, system_prompt, now) ==
    [title |-> title, model_id |-> model_id, system_prompt |-> system_prompt,
     created_at |-> now, updated_at |-> now,
     total_input_tokens |-> 0, total_output_tokens |-> 0, total_cost_usd |-> 0]

\* create_conversation: INSERT INTO conversations
InsertConversation(convs, id, row) == convs @@ (id :> row)

\* add_message, first statement: INSERT INTO messages
InsertMessage(msgs, row) == Append(msgs, row)

\* a rollup that leaves the cost total out
UpdateRollupNoCost(convs, cid, input_tokens, output_tokens, cost_usd, now) ==
    IF cid \in DOMAIN convs
    THEN [convs EXCEPT ![cid] =
            [@ EXCEPT !.updated_at = now,
                      !.total_input_tokens = @ + input_tokens,
                      !.total_output_tokens = @ + output_tokens]]
    ELSE convs

\* add_message, second statement: UPDATE conversations SET totals, updated_at
UpdateRollup(convs, cid, input_tokens, output_tokens, cost_usd, now) ==
    IF cid \in DOMAIN convs
    THEN [convs EXCEPT ![cid] =
            [@ EXCEPT !.updated_at = now,
                      !.total_input_tokens = @ + input_tokens,
                      !.total_output_tokens = @ + output_tokens,
                      !.total_cost_usd = @ + cost_usd]]
    ELSE convs

MessageRow(id, cid, role, content, model_id, input_tokens, output_tokens, cost_usd, used_docs, now) ==
    [id |-> id, conversation_id |-> cid, role |-> role, content |-> content,
     model_id |-> model_id, input_tokens |-> input_tokens,
     output_tokens |-> output_tokens, cost_usd |-> cost_usd,
     used_docs |-> used_docs, created_at |-> now]

\* log_cost: INSERT INTO cost_log
CostRow(id, cid, message_id, model_id, operation, input_tokens, output_tokens, cost_usd, now) ==
    [id |-> id, conversation_id |-> cid, message_id |-> message_id,
     model_id |-> model_id, operation |-> operation, input_tokens |-> input_tokens,
     output_tokens |-> output_tokens, cost_usd |-> cost_usd, created_at |-> now]

\* connections that do not enforce foreign keys
ForeignKeyUnenforced(convs, cid) == TRUE

\* the foreign key of messages and cost_log: the referenced conversation exists
ForeignKeyOK(convs, cid) == cid = None \/ cid[1] \in DOMAIN convs

\* the rows of a conversation in insert order.  created_at never decreases
\* along the insert order, so this is one of the orders that ORDER BY
\* created_at ASC permits (MessageOrders has all of them)
GetConversationMessages(msgs, cid) ==
    SelectSeq(msgs, LAMBDA m : m.conversation_id = cid)

\* the text comparison of two datetime('now') values
Earlier(a, b) == a.day < b.day \/ (a.day = b.day /\ a.sec < b.sec)

\* get_conversation_messages: every order of the conversation's rows that
\* ORDER BY created_at ASC permits; rows of the same second have equal keys
MessageOrders(msgs, cid) ==
    LET rows == GetConversationMessages(msgs, cid)
        n == Len(rows)
        perms == {f \in [1..n -> 1..n] : \A i, j \in 1..n : i # j => f[i] # f[j]}
    IN {[k \in 1..n |-> rows[f[k]]] : f \in
          {g \in perms : \A i, j \in 1..n :
              i < j => ~Earlier(rows[g[j]].created_at, rows[g[i]].created_at)}}

\* a count that finds no message
CountNoMessages(msgs, cid) == 0

\* a count over the whole messages table
CountAllMessages(msgs, cid) == Len(msgs)

\* get_message_count: SELECT COUNT(*) FROM messages WHERE conversation_id = ?
GetMessageCount(msgs, cid) == Len(GetConversationMessages(msgs, cid))

\* a delete that leaves the conversation row in place
KeepConversationRow(convs, cid) == convs

\* a delete that empties the messages table
DeleteEveryMessage(msgs, cid) == <<>>

\* delete_conversation: the three DELETE statements
DeleteMessagesOf(msgs, cid) == SelectSeq(msgs, LAMBDA m : m.conversation_id # cid)

DeleteCostLogOf(log, cid) == SelectSeq(log, LAMBDA e : e.conversation_id # Some(cid))

DeleteConversationRow(convs, cid) ==
    [c \in DOMAIN convs \ {cid} |-> convs[c]]

\* chat.py 52-55: SUM(cost_usd) WHERE created_at >= date('now').  created_at is
\* 'YYYY-MM-DD HH:MM:SS' and date('now') is 'YYYY-MM-DD': the text comparison
\* keeps the rows of today and of later days
TodaySpend(log, now) ==
    SumOver(SelectSeq(log, LAMBDA e : e.created_at.day >= now.day), "cost_usd")

\* bookkeeping for the properties: the peak of today's total
ObservePeak ==
    spend_peak' = IF clock'.day = clock.day /\ spend_peak > TodaySpend(cost_log', clock')
                  THEN spend_peak ELSE TodaySpend(cost_log', clock')

\* the gate comparing with > where the code compares with >=
GateRejectsStrict(cap, today_spend) == cap > 0 /\ today_spend > cap

\* chat.py 50, 58: the budget gate's decision on the sum it read
GateRejects(cap, today_spend) == cap > 0 /\ today_spend >= cap

(***************************************************************************)
(* Chat Orchestrator (routers/chat.py): chat_completions.event_generator.  *)
(* A request in flight is a record: its program counter, the generator's   *)
(* local variables, and the client events it has yielded.  One action is   *)
(* the code between two suspension points that touch the store.            *)
(***************************************************************************)
MaxRequests == 2    \* chat requests the concurrent clients start in a run
MaxTurns == 1       \* chat requests of the single client in a run
MaxConvs == 1       \* conversations created through POST /conversations
MaxDay == 1         \* the last day the clock reaches
MaxFaults == 1      \* storage operations that raise in a run
MaxVoice == 1       \* voice requests that book a cost

Clients == {"c1", "c2", "c3"}

ConcClients == {"c1", "c2"}

DEFAULT_SYSTEM_PROMPT ==
    "You are a helpful, accurate, and concise AI assistant. "
    \o "When provided with context from documents, base your answers on that context "
    \o "and cite the source documents. If you are unsure, say so."

RAG_SYSTEM_PROMPT(context) ==
    "You are an assistant answering questions using ONLY the following documents as context. "
    \o "If the answer is not found in the documents, say so clearly. "
    \o "Cite the source document and chunk when referencing information."
    \o "\n\n--- DOCUMENT CONTEXT ---\n" \o context \o "\n--- END CONTEXT ---"

TITLE_PROMPT ==
    "Generate a short title (max 6 words) for a conversation that starts "
    \o "with the following message. Reply with ONLY the title, no quotes or punctuation."

NoRequest == [conversation_id |-> None, message |-> "", model_id |-> "", use_rag |-> FALSE]

IdleTurn ==
    [pc |-> "idle", request |-> NoRequest, conversation_id |-> None, is_new |-> FALSE,
     system_prompt |-> "", sources |-> <<>>, messages |-> <<>>, rest |-> <<>>,
     raised |-> FALSE, full_response |-> "", input_tokens |-> 0, output_tokens |-> 0,
     web_citations |-> <<>>, msg_id |-> None, cost |-> 0, title |-> "", events |-> <<>>]

ErrorEvent(msg) == [event |-> "error", error |-> msg]

\* a usage event that reports no cost
UsageEventWithoutCost(r) ==
    [event |-> "usage", input_tokens |-> r.input_tokens, output_tokens |-> r.output_tokens,
     cost_usd |-> 0, model_id |-> r.request.model_id,
     conversation_id |-> r.conversation_id]

UsageEvent(r) ==
    [event |-> "usage", input_tokens |-> r.input_tokens, output_tokens |-> r.output_tokens,
     cost_usd |-> r.cost, model_id |-> r.request.model_id,
     conversation_id |-> r.conversation_id]

\* a boundary that reports the error and lets the generator run on to its tail
RaiseAndGoOn(r, msg) == [r EXCEPT !.pc = "tail", !.events = Append(@, ErrorEvent(msg))]

\* the `except Exception` at the generator's boundary: one error event, the end
Raise(r, msg) == [r EXCEPT !.pc = "error", !.events = Append(@, ErrorEvent(msg))]

\* create_conversation (conversation_service.py 7-21)
CreateConversation(model_id, title, system_prompt) ==
    /\ conversations' = InsertConversation(conversations, ids.conv + 1,
                            ConversationRow(title, model_id, system_prompt, clock))
    /\ ids' = [ids EXCEPT !.conv = @ + 1]

\* an add_message that stores an empty content
AddMessageWithoutContent(cid, role, content, model_id, input_tokens, output_tokens, cost_usd, used_docs) ==
    /\ messages' = InsertMessage(messages,
                       MessageRow(ids.msg + 1, cid, role, "", model_id,
                                  input_tokens, output_tokens, cost_usd, used_docs, clock))
    /\ conversations' = UpdateRollup(conversations, cid, input_tokens, output_tokens,
                                     cost_usd, clock)
    /\ ids' = [ids EXCEPT !.msg = @ + 1]

\* add_message (conversation_service.py 52-83): both statements, one commit
AddMessage(cid, role, content, model_id, input_tokens, output_tokens, cost_usd, used_docs) ==
    /\ messages' = InsertMessage(messages,
                       MessageRow(ids.msg + 1, cid, role, content, model_id,
                                  input_tokens, output_tokens, cost_usd, used_docs, clock))
    /\ conversations' = UpdateRollup(conversations, cid, input_tokens, output_tokens,
                                     cost_usd, clock)
    /\ ids' = [ids EXCEPT !.msg = @ + 1]

\* log_cost (cost_tracker.py 49-73)
LogCost(cid, message_id, model_id, operation, input_tokens, output_tokens, cost_usd) ==
    /\ cost_log' = Append(cost_log,
                       CostRow(ids.cost + 1, cid, message_id, model_id, operation,
                               input_tokens, output_tokens, cost_usd, clock))
    /\ ids' = [ids EXCEPT !.cost = @ + 1]

\* update_conversation_title (conversation_service.py 85-91)
UpdateConversationTitle(convs, cid, title, now) ==
    IF cid \in DOMAIN convs
    THEN [convs EXCEPT ![cid] = [@ EXCEPT !.title = title, !.updated_at = now]]
    ELSE convs

\* update_system_prompt (conversation_service.py 93-99)
UpdateSystemPrompt(convs, cid, system_prompt, now) ==
    IF cid \in DOMAIN convs
    THEN [convs EXCEPT ![cid] = [@ EXCEPT !.system_prompt = system_prompt, !.updated_at = now]]
    ELSE convs

\* the accumulated citations passed on as they are
AllCitations(unique, cites) == unique \o cites

\* chat.py 148-156: the citations of the stream, first of each non-empty URL
RECURSIVE UniqueCitations(_, _)
UniqueCitations(unique, cites) ==
    IF cites = <<>> THEN unique
    ELSE LET c == Head(cites)
         IN UniqueCitations(
              IF c.url # "" /\ ~InSeq(c.url, CitationUrls(unique))
              THEN Append(unique, c) ELSE unique,
              Tail(cites))

Whitespace == {" ", "\n", "\t"}

RECURSIVE LStrip(_)
LStrip(s) ==
    IF Len(s) > 0 /\ SubSeq(s, 1, 1) \in Whitespace THEN LStrip(SubSeq(s, 2, Len(s))) ELSE s

RECURSIVE RStrip(_)
RStrip(s) ==
    IF Len(s) > 0 /\ SubSeq(s, Len(s), Len(s)) \in Whitespace
    THEN RStrip(SubSeq(s, 1, Len(s) - 1)) ELSE s

Strip(s) == RStrip(LStrip(s))

TitleLimit == 50

RECURSIVE JoinTexts(_)
JoinTexts(chunks) ==
    IF chunks = <<>> THEN "" ELSE Head(chunks).text \o JoinTexts(Tail(chunks))

\* the title without the cut to 50 characters
TitleOfUncut(chunks) == Strip(JoinTexts(chunks))

\* _auto_title (chat.py 248-254): the title the adapter's chunks give
TitleOf(chunks) ==
    LET joined == Strip(JoinTexts(chunks))
    IN IF Len(joined) > TitleLimit THEN SubSeq(joined, 1, TitleLimit) ELSE joined

\* chat.py 108-117: the system message, then the stored user and assistant rows
AssembleMessages(system_prompt, history) ==
    <<[role |-> "system", content |-> system_prompt]>>
    \o [k \in 1..Len(SelectSeq(history, LAMBDA m : m.role \in {"user", "assistant"})) |->
          LET m == SelectSeq(history, LAMBDA x : x.role \in {"user", "assistant"})[k]
          IN [role |-> m.role, content |-> m.content]]

\* rag_engine.retrieve_context: no chunk passes, some pass, or the call raises
NoRetrieval == [context |-> "", sources |-> <<>>, raised |-> FALSE]

RagOutcomes ==
    { [context |-> "", sources |-> <<>>, raised |-> FALSE],
      [context |-> "[Source: doc.pdf, Chunk 0]", raised |-> FALSE,
       sources |-> <<[filename |-> "doc.pdf", chunk_index |-> 0]>>],
      [context |-> "", sources |-> <<>>, raised |-> TRUE] }

(***************************************************************************)
(* The upstream behaviours the orchestrator is run against: for each       *)
(* provider a complete answer, an answer that breaks off, and the          *)
(* provider's special cases.                                               *)
(***************************************************************************)
OpenAIDelta(t) == [usage |-> None, choices |-> <<[content |-> Some(t), finish_reason |-> None]>>]

OpenAIFinish == [usage |-> None, choices |-> <<[content |-> None, finish_reason |-> Some("stop")]>>]

GeminiFull == Some([prompt_token_count |-> Some(10), candidates_token_count |-> Some(5)])

TurnBackends(p) ==
    CASE p = "openai" ->
           { [items |-> <<OpenAIDelta("a"), OpenAIFinish, OpenAIUsageChunk>>, fail |-> "none"],
             [items |-> <<OpenAIDelta(""), OpenAIDelta("a")>>, fail |-> "none"],
             [items |-> <<OpenAIDelta("a")>>, fail |-> "error"],
             [items |-> <<>>, fail |-> "timeout"] }
      [] p = "anthropic" ->
           { [texts |-> <<"a", "b">>, usage |-> [input_tokens |-> 10, output_tokens |-> 5],
              fail |-> "none"],
             [texts |-> <<"a">>, usage |-> [input_tokens |-> 10, output_tokens |-> 5],
              fail |-> "timeout"] }
      [] p = "google" ->
           { [chunks |-> <<[text |-> "a", usage_metadata |-> GeminiFull,
                            grounding |-> <<[uri |-> Some("A"), title |-> Some("t2")],
                                            [uri |-> Some("B"), title |-> None]>>],
                           [text |-> "", usage_metadata |-> None,
                            grounding |-> <<[uri |-> None, title |-> Some("t1")],
                                            [uri |-> Some("A"), title |-> Some("t1")]>>]>>,
              fail |-> "none"],
             [chunks |-> <<[text |-> "a", usage_metadata |-> GeminiFull, grounding |-> <<>>]>>,
              fail |-> "error"] }
      [] p = "perplexity" ->
           { [fail |-> "none", error |-> "",
              response |-> [choices |-> <<[message |-> Some([content |-> Some("a")])]>>,
                            citations |-> Some(<<[kind |-> "str", url |-> "A", title |-> None],
                                                 [kind |-> "str", url |-> "A", title |-> None],
                                                 [kind |-> "str", url |-> "B", title |-> None]>>),
                            model_extra |-> [citations |-> None],
                            usage |-> Some([prompt_tokens |-> Some(10),
                                            completion_tokens |-> Some(5)])]],
             [fail |-> "none", error |-> "",
              response |-> [choices |-> <<>>, citations |-> None,
                            model_extra |-> [citations |-> None], usage |-> None]],
             [fail |-> "timeout", error |-> "", response |-> None] }

CoreBackends(p) ==
    CASE p = "openai" ->
           { [items |-> <<OpenAIDelta("a"), OpenAIUsageChunk>>, fail |-> "none"],
             [items |-> <<OpenAIDelta("a")>>, fail |-> "error"] }
      [] OTHER -> TurnBackends(p)

CompareBackends(p) ==
    CASE p = "openai" ->
           { [items |-> <<OpenAIDelta("a"), OpenAIUsageChunk>>, fail |-> "none"],
             [items |-> <<OpenAIDelta("a")>>, fail |-> "error"] }
      [] p = "perplexity" ->
           { b \in TurnBackends(p) : b.fail = "none" /\ b.response.choices # <<>> }
      [] OTHER -> TurnBackends(p)

\* the upstream behaviours of a run: "turn", "core" or "compare"
BackendsOf(kind, p) ==
    CASE kind = "turn" -> TurnBackends(p)
      [] kind = "core" -> CoreBackends(p)
      [] kind = "compare" -> CompareBackends(p)

Set(t, r) == turn' = [turn EXCEPT ![t] = r]

\* a client posts /chat/completions
StartTurn(t, Models, Rags, limit) ==
    /\ turn[t].pc = "idle"
    /\ requests < limit
    /\ requests' = requests + 1
    /\ \E c \in {None} \cup {Some(i) : i \in 0..ids.conv}, m \in Models, rag \in Rags :
         Set(t, [IdleTurn EXCEPT !.pc = "gate",
                                 !.request = [conversation_id |-> c, message |-> "hello",
                                              model_id |-> m, use_rag |-> rag]])
    /\ UNCHANGED <<adapterVars, settings, clock, storeVars, ids, faults>>
    /\ ObservePeak /\ UNCHANGED compare

\* the gate without the `return` after its error event: the turn goes on
GateNoReturn(t) ==
    /\ turn[t].pc = "gate"
    /\ LET r == turn[t]
           today_spend == TodaySpend(cost_log, clock)
       IN Set(t, [r EXCEPT !.pc = IF r.request.conversation_id = None
                                  THEN "create" ELSE "getconv",
                           !.conversation_id = r.request.conversation_id,
                           !.events = IF GateRejects(settings.max_daily_spend_usd, today_spend)
                                      THEN Append(@, ErrorEvent("Daily budget"))
                                      ELSE @])
    /\ UNCHANGED <<adapterVars, settings, clock, storeVars, ids, requests, faults>>
    /\ ObservePeak /\ UNCHANGED compare

\* chat.py 48-67: the budget gate
Gate(t) ==
    /\ turn[t].pc = "gate"
    /\ LET r == turn[t]
           today_spend == TodaySpend(cost_log, clock)
       IN IF GateRejects(settings.max_daily_spend_usd, today_spend)
          THEN Set(t, [r EXCEPT !.pc = "rejected",
                                !.events = Append(@, ErrorEvent("Daily budget"))])
          ELSE Set(t, [r EXCEPT !.pc = IF r.request.conversation_id = None
                                       THEN "create" ELSE "getconv",
                                !.conversation_id = r.request.conversation_id])
    /\ UNCHANGED <<adapterVars, settings, clock, storeVars, ids, requests, faults>>
    /\ ObservePeak /\ UNCHANGED compare

\* chat.py 70-79: no conversation id: create the row, tell the client
Create(t) ==
    /\ turn[t].pc = "create"
    /\ LET r == turn[t]
       IN /\ CreateConversation(r.request.model_id, "New Conversation", "")
          /\ Set(t, [r EXCEPT !.pc = "getconv",
                              !.conversation_id = Some(ids.conv + 1),
                              !.is_new = TRUE,
                              !.events = Append(@, [event |-> "conversation",
                                                    conversation_id |-> ids.conv + 1])])
    /\ UNCHANGED <<adapterVars, settings, clock, messages, cost_log, requests, faults>>
    /\ ObservePeak /\ UNCHANGED compare

\* chat.py 82-83: the conversation's custom system prompt
GetConv(t) ==
    /\ turn[t].pc = "getconv"
    /\ LET r == turn[t]
           cid == r.conversation_id[1]
       IN Set(t, [r EXCEPT !.pc = "adduser",
                           !.system_prompt = IF cid \in DOMAIN conversations
                                             THEN conversations[cid].system_prompt
                                             ELSE ""])
    /\ UNCHANGED <<adapterVars, settings, clock, storeVars, ids, requests, faults>>
    /\ ObservePeak /\ UNCHANGED compare

\* chat.py 86-91: the user message; a missing conversation breaks the foreign key
AddUser(t) ==
    /\ turn[t].pc = "adduser"
    /\ LET r == turn[t]
           cid == r.conversation_id[1]
       IN IF ForeignKeyOK(conversations, r.conversation_id)
          THEN /\ AddMessage(cid, "user", r.request.message, None, 0, 0, 0,
                             r.request.use_rag)
               /\ Set(t, [r EXCEPT !.pc = "history",
                                   !.system_prompt = IF @ # "" THEN @
                                                     ELSE DEFAULT_SYSTEM_PROMPT])
          ELSE /\ Set(t, Raise(r, "FOREIGN KEY constraint failed"))
               /\ UNCHANGED <<conversations, messages, ids>>
    /\ UNCHANGED <<adapterVars, settings, clock, cost_log, requests, faults>>
    /\ ObservePeak /\ UNCHANGED compare

\* chat.py 94-106: retrieval when the request asks for it: the RAG prompt and
\* the sources event
WithContext(r, o) ==
    [r EXCEPT !.system_prompt = IF o.context # "" THEN RAG_SYSTEM_PROMPT(o.context) ELSE @,
              !.sources = o.sources,
              !.events = IF o.sources # <<>>
                         THEN Append(@, [event |-> "sources", sources |-> o.sources])
                         ELSE @]

\* chat.py 94-134: retrieval, the message list from the stored history, the
\* route, the adapter invocation.  Retrieval does not touch the relational
\* store, so it is one step with the history read that follows it.
History(t, kind) ==
    /\ turn[t].pc = "history"
    /\ \E o \in IF turn[t].request.use_rag THEN RagOutcomes ELSE {NoRetrieval} :
         \E history \in MessageOrders(messages, turn[t].conversation_id[1]) :
           LET r == WithContext(turn[t], o)
               route == GetProvider(settings.keys, r.request.model_id)
               assembled == [r EXCEPT !.messages = AssembleMessages(r.system_prompt, history)]
           IN IF o.raised
              THEN Set(t, Raise(turn[t], "retrieval failed"))
              ELSE IF ~route.ok
              THEN Set(t, Raise(assembled, route.error))
              ELSE \E out \in {ProviderStreamChat(route.provider, b) : b \in BackendsOf(kind, route.provider)} :
                     Set(t, [assembled EXCEPT !.pc = "stream",
                                              !.rest = out.chunks,
                                              !.raised = out.raised])
    /\ UNCHANGED <<adapterVars, settings, clock, storeVars, ids, requests, faults>>
    /\ ObservePeak /\ UNCHANGED compare

\* chat.py 135-145: one chunk of the adapter's stream
Stream(t) ==
    /\ turn[t].pc = "stream"
    /\ turn[t].rest # <<>>
    /\ LET r == turn[t]
           chunk == Head(r.rest)
       IN Set(t, [r EXCEPT !.rest = Tail(@),
                           !.full_response = IF chunk.text # "" THEN @ \o chunk.text ELSE @,
                           !.events = IF chunk.text # ""
                                      THEN Append(@, [event |-> "token", text |-> chunk.text])
                                      ELSE @,
                           !.web_citations = @ \o chunk.citations,
                           !.input_tokens = IF chunk.is_final THEN chunk.input_tokens ELSE @,
                           !.output_tokens = IF chunk.is_final THEN chunk.output_tokens ELSE @])
    /\ UNCHANGED <<adapterVars, settings, clock, storeVars, ids, requests, faults>>
    /\ ObservePeak /\ UNCHANGED compare

\* chat.py 148-160: the web_sources event once the stream has ended
WebSources(r) ==
    IF r.web_citations # <<>>
    THEN Append(r.events, [event |-> "web_sources",
                           citations |-> UniqueCitations(<<>>, r.web_citations)])
    ELSE r.events

\* a turn that treats a stream without token counts as a failure
StreamEndNeedsUsage(t) ==
    /\ turn[t].pc = "stream"
    /\ turn[t].rest = <<>>
    /\ LET r == turn[t]
           cid == r.conversation_id[1]
           cost == CalculateChatCost(r.request.model_id, r.input_tokens, r.output_tokens)
       IN IF r.raised \/ (r.input_tokens = 0 /\ r.output_tokens = 0)
          THEN /\ Set(t, Raise(r, "upstream error"))
               /\ UNCHANGED <<conversations, messages, ids>>
          ELSE IF ForeignKeyOK(conversations, r.conversation_id)
          THEN /\ AddMessage(cid, "assistant", r.full_response, Some(r.request.model_id),
                             r.input_tokens, r.output_tokens, cost,
                             r.request.use_rag /\ r.sources # <<>>)
               /\ Set(t, [r EXCEPT !.pc = "logcost", !.events = WebSources(r),
                                   !.cost = cost, !.msg_id = Some(ids.msg + 1)])
          ELSE /\ Set(t, Raise([r EXCEPT !.events = WebSources(r), !.cost = cost],
                               "FOREIGN KEY constraint failed"))
               /\ UNCHANGED <<conversations, messages, ids>>
    /\ UNCHANGED <<adapterVars, settings, clock, cost_log, requests, faults>>
    /\ ObservePeak /\ UNCHANGED compare

\* chat.py 129-175: the stream ends: the upstream exception surfaces, or the
\* web sources go out, the cost is computed and the assistant message stored
StreamEnd(t) ==
    /\ turn[t].pc = "stream"
    /\ turn[t].rest = <<>>
    /\ LET r == turn[t]
           cid == r.conversation_id[1]
           cost == CalculateChatCost(r.request.model_id, r.input_tokens, r.output_tokens)
       IN IF r.raised
          THEN /\ Set(t, Raise(r, "upstream error"))
               /\ UNCHANGED <<conversations, messages, ids>>
          ELSE IF ForeignKeyOK(conversations, r.conversation_id)
          THEN /\ AddMessage(cid, "assistant", r.full_response, Some(r.request.model_id),
                             r.input_tokens, r.output_tokens, cost,
                             r.request.use_rag /\ r.sources # <<>>)
               /\ Set(t, [r EXCEPT !.pc = "logcost", !.events = WebSources(r),
                                   !.cost = cost, !.msg_id = Some(ids.msg + 1)])
          ELSE /\ Set(t, Raise([r EXCEPT !.events = WebSources(r), !.cost = cost],
                               "FOREIGN KEY constraint failed"))
               /\ UNCHANGED <<conversations, messages, ids>>
    /\ UNCHANGED <<adapterVars, settings, clock, cost_log, requests, faults>>
    /\ ObservePeak /\ UNCHANGED compare

\* a turn that goes on to its tail without having written its cost entry
LogTurnCostLeftOut(t) ==
    /\ turn[t].pc = "logcost"
    /\ Set(t, [turn[t] EXCEPT !.pc = "titlecheck"])
    /\ UNCHANGED <<adapterVars, settings, clock, storeVars, ids, requests, faults>>
    /\ ObservePeak /\ UNCHANGED compare

\* chat.py 178-186: the cost entry of the turn
LogTurnCost(t) ==
    /\ turn[t].pc = "logcost"
    /\ LET r == turn[t]
       IN IF ForeignKeyOK(conversations, r.conversation_id)
          THEN /\ LogCost(r.conversation_id, r.msg_id, r.request.model_id, "chat",
                          r.input_tokens, r.output_tokens, r.cost)
               /\ Set(t, [r EXCEPT !.pc = "titlecheck"])
          ELSE /\ Set(t, Raise(r, "FOREIGN KEY constraint failed"))
               /\ UNCHANGED <<cost_log, ids>>
    /\ UNCHANGED <<adapterVars, settings, clock, conversations, messages, requests, faults>>
    /\ ObservePeak /\ UNCHANGED compare

\* chat.py 189-196 and _auto_title up to the title text: whether to title, and
\* the secondary adapter call; what it raises leaves _auto_title
TitleCheck(t, kind) ==
    /\ turn[t].pc = "titlecheck"
    /\ LET r == turn[t]
           route == GetProvider(settings.keys, r.request.model_id)
       IN IF ~(r.is_new \/ GetMessageCount(messages, r.conversation_id[1]) <= 2)
          THEN Set(t, [r EXCEPT !.pc = "tail"])
          ELSE IF ~route.ok
          THEN Set(t, [r EXCEPT !.pc = "titlefail"])
          ELSE \E out \in {ProviderStreamChat(route.provider, b) : b \in BackendsOf(kind, route.provider)} :
                 IF out.raised
                 THEN Set(t, [r EXCEPT !.pc = "titlefail"])
                 ELSE IF TitleOf(out.chunks) = ""
                 THEN Set(t, [r EXCEPT !.pc = "tail"])
                 ELSE Set(t, [r EXCEPT !.pc = "title", !.title = TitleOf(out.chunks)])
    /\ UNCHANGED <<adapterVars, settings, clock, storeVars, ids, requests, faults>>
    /\ ObservePeak /\ UNCHANGED compare

\* a title step that books the title call in the ledger as well
TitleUpdateBilled(t) ==
    /\ turn[t].pc = "title"
    /\ conversations' = UpdateConversationTitle(conversations, turn[t].conversation_id[1],
                                                turn[t].title, clock)
    /\ LogCost(turn[t].conversation_id, None, turn[t].request.model_id, "chat", 0, 0, 0)
    /\ Set(t, [turn[t] EXCEPT !.pc = "tail"])
    /\ UNCHANGED <<adapterVars, settings, clock, messages, requests, faults>>
    /\ ObservePeak /\ UNCHANGED compare

\* chat.py 255-256: the title is written
TitleUpdate(t) ==
    /\ turn[t].pc = "title"
    /\ conversations' = UpdateConversationTitle(conversations, turn[t].conversation_id[1],
                                                turn[t].title, clock)
    /\ Set(t, [turn[t] EXCEPT !.pc = "tail"])
    /\ UNCHANGED <<adapterVars, settings, clock, messages, cost_log, ids, requests, faults>>
    /\ ObservePeak /\ UNCHANGED compare

\* a handler that hands the exception of _auto_title on to the boundary
TitleReraise(t) ==
    /\ turn[t].pc = "titlefail"
    /\ Set(t, Raise(turn[t], "title failed"))
    /\ UNCHANGED <<adapterVars, settings, clock, storeVars, ids, requests, faults>>
    /\ ObservePeak /\ UNCHANGED compare

\* chat.py 195-196: `except Exception: pass` around _auto_title
TitleSwallow(t) ==
    /\ turn[t].pc = "titlefail"
    /\ Set(t, [turn[t] EXCEPT !.pc = "tail"])
    /\ UNCHANGED <<adapterVars, settings, clock, storeVars, ids, requests, faults>>
    /\ ObservePeak /\ UNCHANGED compare

\* the tail with its two events swapped
TailEventsDoneFirst(t) ==
    /\ turn[t].pc = "tail"
    /\ Set(t, [turn[t] EXCEPT !.pc = "done",
                              !.events = @ \o <<[event |-> "done"], UsageEvent(turn[t])>>])
    /\ UNCHANGED <<adapterVars, settings, clock, storeVars, ids, requests, faults>>
    /\ ObservePeak /\ UNCHANGED compare

\* chat.py 199-210: usage, then done
TailEvents(t) ==
    /\ turn[t].pc = "tail"
    /\ Set(t, [turn[t] EXCEPT !.pc = "done",
                              !.events = @ \o <<UsageEvent(turn[t]), [event |-> "done"]>>])
    /\ UNCHANGED <<adapterVars, settings, clock, storeVars, ids, requests, faults>>
    /\ ObservePeak /\ UNCHANGED compare

\* a failed cost write that takes the turn's assistant message back out
StorageFaultUndoes(t) ==
    /\ faults < MaxFaults
    /\ faults' = faults + 1
    /\ turn[t].pc = "logcost"
    /\ Set(t, Raise(turn[t], "database is locked"))
    /\ messages' = SelectSeq(messages, LAMBDA m : m.id # turn[t].msg_id[1])
    /\ UNCHANGED <<adapterVars, settings, clock, conversations, cost_log, ids, requests>>
    /\ ObservePeak /\ UNCHANGED compare

\* the store operation the turn is about to run raises (database locked, disk
\* error): nothing is committed.  Inside _auto_title the exception goes to
\* the handler around it; everywhere else it reaches the generator's boundary.
StorageFault(t) ==
    /\ faults < MaxFaults
    /\ faults' = faults + 1
    /\ LET r == turn[t]
       IN \/ /\ \/ r.pc = "gate" /\ settings.max_daily_spend_usd > 0
                \/ r.pc \in {"create", "getconv", "adduser", "history", "logcost"}
                \/ r.pc = "titlecheck" /\ ~r.is_new
             /\ Set(t, Raise(r, "database is locked"))
          \/ /\ r.pc = "stream" /\ r.rest = <<>> /\ ~r.raised
             /\ Set(t, Raise([r EXCEPT !.events = WebSources(r)], "database is locked"))
          \/ /\ r.pc = "title"
             /\ Set(t, [r EXCEPT !.pc = "titlefail"])
    /\ UNCHANGED <<adapterVars, settings, clock, storeVars, ids, requests>>
    /\ ObservePeak /\ UNCHANGED compare

\* chat.py 129-145 and 212-217: the client goes away while the generator is
\* suspended in the stream loop.  The server cancels the response task and
\* the generator is closed where it stands; asyncio.CancelledError and
\* GeneratorExit are not Exception, so they pass `except Exception`, and there
\* is no finally: the adapter's generator is closed and nothing else runs.
Disconnect(t) ==
    /\ turn[t].pc = "stream"
    /\ Set(t, [turn[t] EXCEPT !.pc = "cancelled", !.rest = <<>>])
    /\ UNCHANGED <<adapterVars, settings, clock, storeVars, ids, requests, faults>>
    /\ ObservePeak /\ UNCHANGED compare

\* the response is over; the client may post again
Finish(t) ==
    /\ turn[t].pc \in {"done", "error", "rejected", "cancelled"}
    /\ Set(t, IdleTurn)
    /\ UNCHANGED <<adapterVars, settings, clock, storeVars, ids, requests, faults>>
    /\ ObservePeak /\ UNCHANGED compare

(***************************************************************************)
(* The other endpoints that write the store (routers/conversations.py),    *)
(* and the passing of time.                                                *)
(***************************************************************************)
ApiCreateConversation ==
    /\ ids.conv < MaxConvs
    /\ CreateConversation("gpt-4o", "New Conversation", "")
    /\ UNCHANGED <<adapterVars, settings, clock, messages, cost_log, turn, requests, faults>>
    /\ ObservePeak /\ UNCHANGED compare

ApiDeleteConversation ==
    /\ \E cid \in DOMAIN conversations :
         /\ messages' = DeleteMessagesOf(messages, cid)
         /\ cost_log' = DeleteCostLogOf(cost_log, cid)
         /\ conversations' = DeleteConversationRow(conversations, cid)
    /\ UNCHANGED <<adapterVars, settings, clock, ids, turn, requests, faults>>
    /\ ObservePeak /\ UNCHANGED compare

ApiUpdateSystemPrompt ==
    /\ \E cid \in DOMAIN conversations, sp \in {"", "Be concise."} :
         /\ conversations[cid].system_prompt # sp
         /\ conversations' = UpdateSystemPrompt(conversations, cid, sp, clock)
    /\ UNCHANGED <<adapterVars, settings, clock, messages, cost_log, ids, turn, requests, faults>>
    /\ ObservePeak /\ UNCHANGED compare

\* routers/voice.py 28-33, 52-57: a transcription or a synthesis books its cost
LogVoiceCost ==
    /\ Len(SelectSeq(cost_log, LAMBDA e : e.operation # "chat")) < MaxVoice
    /\ \E op \in {"stt", "tts"} :
         LogCost(None, None, IF op = "stt" THEN "whisper-1" ELSE "tts-1", op, 0, 0, 7500)
    /\ UNCHANGED <<adapterVars, settings, clock, conversations, messages, turn, requests, faults>>
    /\ ObservePeak /\ UNCHANGED compare

NextDay ==
    /\ clock.day < MaxDay
    /\ clock' = [day |-> clock.day + 1, sec |-> 0]
    /\ UNCHANGED <<adapterVars, settings, storeVars, ids, turn, requests, faults>>
    /\ ObservePeak /\ UNCHANGED compare

RequestModels == CatalogIds \cup {"nonexistent-model"}

CoreModels == {"gpt-4o", "nonexistent-model"}

Caps == {-1, 0, 7500}

KeySets == {Providers, Providers \ {"anthropic"}}

NoCall == [fn |-> "", args |-> <<>>, pc |-> "off", result |-> <<>>]

NoAdapterRun ==
    /\ call = NoCall
    /\ a_prov = ""
    /\ a_backend = <<>>
    /\ a_pc = "off"
    /\ a_out = <<>>
    /\ a_rest = <<>>

InitStore ==
    /\ clock = [day |-> 0, sec |-> 0]
    /\ conversations = <<>>
    /\ messages = <<>>
    /\ cost_log = <<>>
    /\ ids = [conv |-> 0, msg |-> 0, cost |-> 0]
    /\ turn = [t \in Clients |-> IdleTurn]
    /\ requests = 0
    /\ faults = 0
    /\ spend_peak = 0

NoComparison == [pc |-> "off", models |-> <<>>, results |-> <<>>, alive |-> <<>>, read |-> <<>>]

\* one step of the event generator of turn t
TurnStep(t, kind) ==
    \/ Gate(t)
    \/ Create(t)
    \/ GetConv(t)
    \/ AddUser(t)
    \/ History(t, kind)
    \/ Stream(t)
    \/ StreamEnd(t)
    \/ LogTurnCost(t)
    \/ TitleCheck(t, kind)
    \/ TitleUpdate(t)
    \/ TitleSwallow(t)
    \/ TailEvents(t)

TurnNext(t, Models, Rags, kind, limit) ==
    \/ StartTurn(t, Models, Rags, limit)
    \/ TurnStep(t, kind)
    \/ Finish(t)

(***************************************************************************)
(* Spec: one client posting turn after turn under every budget cap, while  *)
(* the other endpoints book costs, create and delete conversations, and    *)
(* the day changes.                                                        *)
(***************************************************************************)
Init ==
    /\ NoAdapterRun
    /\ settings \in [max_daily_spend_usd : Caps, keys : {Providers}]
    /\ InitStore
    /\ compare = NoComparison

Next ==
    \/ TurnNext("c1", CoreModels, {FALSE}, "core", MaxRequests)
    \/ ApiCreateConversation
    \/ ApiDeleteConversation
    \/ LogVoiceCost
    \/ NextDay

Spec == Init /\ [][Next]_vars

(***************************************************************************)
(* SpecTurn: one turn over the whole request space: every model of the     *)
(* catalog and an unknown one, with and without retrieval, against every   *)
(* upstream behaviour, with a provider key missing or not.                 *)
(***************************************************************************)
InitTurn ==
    /\ NoAdapterRun
    /\ settings \in [max_daily_spend_usd : {7500}, keys : KeySets]
    /\ InitStore
    /\ compare = NoComparison

NextTurn ==
    \/ TurnNext("c1", RequestModels, BOOLEAN, "turn", MaxTurns)
    \/ StorageFault("c1")
    \/ Disconnect("c1")
    \/ ApiCreateConversation
    \/ ApiDeleteConversation
    \/ ApiUpdateSystemPrompt

SpecTurn == InitTurn /\ [][NextTurn]_vars

(***************************************************************************)
(* SpecConc: two clients whose turns interleave at every store operation.  *)
(***************************************************************************)
InitConc ==
    /\ NoAdapterRun
    /\ settings = [max_daily_spend_usd |-> 7500, keys |-> Providers]
    /\ InitStore
    /\ compare = NoComparison

NextConc ==
    \/ \E t \in ConcClients : TurnNext(t, CoreModels, {FALSE}, "core", MaxRequests)
    \/ ApiCreateConversation
    \/ ApiDeleteConversation

SpecConc == InitConc /\ [][NextConc]_vars

(***************************************************************************)
(* The comparison run of the frontend (chat_view._handle_comparison): one  *)
(* thread per selected model, each posting its own /chat/completions       *)
(* request and folding the events of its stream into its slot's buffer.    *)
(***************************************************************************)
MaxSlots == 3       \* compare_models[:3]
MaxUnread == 1      \* events a stream may hold that its thread has not read yet

SlotClient == <<"c1", "c2", "c3">>

\* chat_view.py 243
EmptyResult == [text |-> "", usage |-> None, error |-> None, web_sources |-> <<>>]

\* what the user may have selected for comparison
Selections ==
    { <<"gpt-4o", "sonar">>,
      <<"sonar", "nonexistent-model">>,
      <<"nonexistent-model", "gpt-4o", "nonexistent-model", "sonar">> }

\* chat_view.py 229-253: the first three selected models, one empty buffer each
StartComparison ==
    /\ compare.pc = "off"
    /\ \E sel \in Selections :
         LET models == SubSeq(sel, 1, IF Len(sel) > MaxSlots THEN MaxSlots ELSE Len(sel))
         IN compare' = [pc |-> "launch", models |-> models,
                        results |-> [i \in DOMAIN models |-> EmptyResult],
                        alive |-> [i \in DOMAIN models |-> FALSE],
                        read |-> [i \in DOMAIN models |-> 0]]
    /\ UNCHANGED <<adapterVars, settings, clock, storeVars, ids, turn, requests, faults>>
    /\ ObservePeak

\* chat_view.py 282-286 with api_client.stream_chat 26-37: thread i is started
\* and posts its request, without a conversation id
SlotPost(i) ==
    /\ compare.pc = "launch"
    /\ i \in DOMAIN compare.models
    /\ ~compare.alive[i] /\ turn[SlotClient[i]].pc = "idle"
    /\ \A k \in 1..(i - 1) : turn[SlotClient[k]].pc # "idle" \/ compare.alive[k]
    /\ Set(SlotClient[i],
           [IdleTurn EXCEPT !.pc = "gate",
                            !.request = [conversation_id |-> None, message |-> "hello",
                                         model_id |-> compare.models[i],
                                         use_rag |-> FALSE]])
    /\ compare' = [compare EXCEPT !.alive[i] = TRUE,
                                  !.pc = IF i = Len(compare.models) THEN "poll" ELSE @]
    /\ UNCHANGED <<adapterVars, settings, clock, storeVars, ids, requests, faults>>
    /\ ObservePeak

\* the threads folding every event into the first slot's buffer
RecordShared(results, idx, event) ==
    CASE event.event = "token" ->
           [results EXCEPT ![1].text = @ \o event.text]
      [] event.event = "usage" ->
           [results EXCEPT ![1].usage = Some(event)]
      [] event.event = "web_sources" ->
           [results EXCEPT ![1].web_sources = event.citations]
      [] event.event = "error" ->
           [results EXCEPT ![1].error = Some(event.error)]
      [] OTHER -> results

\* chat_view.py 265-277: one event folded into the buffer of slot idx
Record(results, idx, event) ==
    CASE event.event = "token" ->
           [results EXCEPT ![idx].text = @ \o event.text]
      [] event.event = "usage" ->
           [results EXCEPT ![idx].usage = Some(event)]
      [] event.event = "web_sources" ->
           [results EXCEPT ![idx].web_sources = event.citations]
      [] event.event = "error" ->
           [results EXCEPT ![idx].error = Some(event.error)]
      [] OTHER -> results

\* chat_view.py 258-277: thread i reads the next event of its stream
SlotRead(i) ==
    /\ i \in DOMAIN compare.models
    /\ compare.alive[i]
    /\ compare.read[i] < Len(turn[SlotClient[i]].events)
    /\ LET event == turn[SlotClient[i]].events[compare.read[i] + 1]
       IN compare' = [compare EXCEPT !.results = Record(@, i, event),
                                     !.read[i] = @ + 1,
                                     !.alive[i] = event.event \notin {"error", "done"}]
    /\ UNCHANGED <<adapterVars, settings, clock, storeVars, ids, turn, requests, faults>>
    /\ ObservePeak

\* chat_view.py 278-279: the transport raises (connection refused or reset,
\* read timeout): the thread records it and ends
SlotException(i) ==
    /\ i \in DOMAIN compare.models
    /\ compare.alive[i]
    /\ faults < MaxFaults
    /\ faults' = faults + 1
    /\ compare' = [compare EXCEPT !.results[i].error = Some("transport error"),
                                  !.alive[i] = FALSE]
    /\ UNCHANGED <<adapterVars, settings, clock, storeVars, ids, turn, requests>>
    /\ ObservePeak

\* the stream of slot i goes on while its thread keeps up with it
SlotTurn(i) ==
    /\ i \in DOMAIN compare.models
    /\ \/ ~compare.alive[i]
       \/ Len(turn[SlotClient[i]].events) - compare.read[i] < MaxUnread
    /\ TurnStep(SlotClient[i], "compare")

\* the loop leaving as soon as one thread has ended
AnyDone(alive) == \E i \in DOMAIN alive : ~alive[i]

\* chat_view.py 292: all(not t.is_alive() for t in threads)
AllDone(alive) == \A i \in DOMAIN alive : ~alive[i]

\* chat_view.py 290-300: one iteration of the polling loop; it reads the
\* threads' liveness, renders the buffers, and either leaves the loop or
\* sleeps 0.1 s and comes round again
Poll ==
    /\ compare.pc = "poll"
    /\ LET all_done == AllDone(compare.alive)
       IN compare' = [compare EXCEPT !.pc = IF all_done THEN "over" ELSE "poll"]
    /\ UNCHANGED <<adapterVars, settings, clock, storeVars, ids, turn, requests, faults>>
    /\ ObservePeak

InitCompare ==
    /\ NoAdapterRun
    /\ settings = [max_daily_spend_usd |-> 7500, keys |-> Providers]
    /\ InitStore
    /\ compare = NoComparison

NextCompare ==
    \/ StartComparison
    \/ \E i \in 1..MaxSlots : SlotPost(i)
    \/ \E i \in 1..MaxSlots : SlotTurn(i)
    \/ \E i \in 1..MaxSlots : SlotRead(i)
    \/ \E i \in 1..MaxSlots : SlotException(i)
    \/ Poll

SpecCompare == InitCompare /\ [][NextCompare]_vars

\* the main thread of the comparison keeps running: a loop iteration that is
\* due (time.sleep(0.1) has returned) is eventually executed
SpecCompareFair == SpecCompare /\ WF_vars(Poll)

(***************************************************************************)
(* One adapter invocation on its own, consumed chunk by chunk.              *)
(***************************************************************************)
AdapterInit ==
    /\ a_prov \in Providers
    /\ a_backend \in Backends(a_prov)
    /\ a_pc = "run"
    /\ a_out = <<>>
    /\ a_rest = ProviderStreamChat(a_prov, a_backend).chunks
    /\ call = NoCall
    /\ settings = [max_daily_spend_usd |-> 0, keys |-> Providers]
    /\ InitStore
    /\ compare = NoComparison

\* the generator yields its next chunk
AdapterYield ==
    /\ a_pc = "run"
    /\ a_rest # <<>>
    /\ a_out' = Append(a_out, Head(a_rest))
    /\ a_rest' = Tail(a_rest)
    /\ UNCHANGED <<a_prov, a_backend, a_pc, call, settings, clock, storeVars, ids, turn,
                   requests, faults, spend_peak, compare>>

\* the generator is exhausted: it returns, or the upstream exception leaves it
AdapterEnd ==
    /\ a_pc = "run"
    /\ a_rest = <<>>
    /\ a_pc' = IF ProviderStreamChat(a_prov, a_backend).raised THEN "raised" ELSE "done"
    /\ UNCHANGED <<a_prov, a_backend, a_out, a_rest, call, settings, clock, storeVars,
                   ids, turn, requests, faults, spend_peak, compare>>

AdapterNext == AdapterYield \/ AdapterEnd

SpecAdapter == AdapterInit /\ [][AdapterNext]_vars

(***************************************************************************)
(* SpecGemini: the Gemini adapter step by step.  _sync_stream runs in the  *)
(* executor and iterates the backend stream into a list; the generator     *)
(* waits for it and only then walks the list.  While a_pc = "collect",     *)
(* a_rest holds the backend chunks the thread has not iterated yet (the    *)
(* backend raises after the last of them when a_backend.fail says so);     *)
(* afterwards a_rest holds the chunks the generator has still to yield.    *)
(***************************************************************************)
InitGemini ==
    /\ a_prov = "google"
    /\ a_backend \in GeminiBackends
    /\ a_pc = "collect"
    /\ a_out = <<>>
    /\ a_rest = a_backend.chunks
    /\ call = NoCall
    /\ settings = [max_daily_spend_usd |-> 0, keys |-> Providers]
    /\ InitStore
    /\ compare = NoComparison

\* an adapter that yields each text as the backend produces it
GeminiCollectYielding ==
    /\ a_pc = "collect"
    /\ a_rest # <<>>
    /\ a_rest' = Tail(a_rest)
    /\ a_out' = IF Head(a_rest).text # "" THEN Append(a_out, TextChunk(Head(a_rest).text))
                ELSE a_out
    /\ UNCHANGED <<a_prov, a_backend, a_pc, call, settings, clock, storeVars, ids, turn,
                   requests, faults, spend_peak, compare>>

\* gemini_provider.py 63-68: the thread takes the next chunk of the backend
\* stream into its list
GeminiCollect ==
    /\ a_pc = "collect"
    /\ a_rest # <<>>
    /\ a_rest' = Tail(a_rest)
    /\ UNCHANGED <<a_prov, a_backend, a_pc, a_out, call, settings, clock, storeVars, ids,
                   turn, requests, faults, spend_peak, compare>>

\* gemini_provider.py 69-74: the backend stream is over.  If it raised, the
\* thread logs and re-raises, and `await loop.run_in_executor` raises in the
\* generator; otherwise the list is returned and the generator starts on it
GeminiThreadEnd ==
    /\ a_pc = "collect"
    /\ a_rest = <<>>
    /\ IF a_backend.fail # "none"
       THEN a_pc' = "raised" /\ a_rest' = <<>>
       ELSE a_pc' = "run" /\ a_rest' = GeminiStreamChat(a_backend).chunks
    /\ UNCHANGED <<a_prov, a_backend, a_out, call, settings, clock, storeVars, ids, turn,
                   requests, faults, spend_peak, compare>>

NextGemini == GeminiCollect \/ GeminiThreadEnd \/ AdapterYield \/ AdapterEnd

SpecGemini == InitGemini /\ [][NextGemini]_vars

(***************************************************************************)
(* The methods of the router and of the cost tracker called on their own,  *)
(* as the unit tests call them: one call, on any arguments, under any set  *)
(* of configured providers.                                                *)
(***************************************************************************)
Pending(fn, args) == [fn |-> fn, args |-> args, pc |-> "pending", result |-> <<>>]

RouterCalls ==
    {Pending("_get_provider", <<m>>) : m \in RequestModels}
    \cup {Pending("get_available_models", <<>>)}

\* token counts of a call: none, one, the tests' 500 and 1000
TokenCounts == {0, 1, 500, 1000}

CostCalls ==
    {Pending("calculate_chat_cost", <<m, i, o>>) :
        m \in RequestModels, i \in TokenCounts, o \in TokenCounts}

Calls == RouterCalls \cup CostCalls

Return(value) ==
    /\ call' = [call EXCEPT !.pc = "returned", !.result = value]
    /\ UNCHANGED <<a_prov, a_backend, a_pc, a_out, a_rest, settings, clock, storeVars,
                   ids, turn, requests, faults, spend_peak, compare>>

\* LLMRouter._get_provider(model_id)
CallGetProvider ==
    /\ call.pc = "pending" /\ call.fn = "_get_provider"
    /\ Return(GetProvider(settings.keys, call.args[1]))

\* LLMRouter.get_available_models()
CallGetAvailableModels ==
    /\ call.pc = "pending" /\ call.fn = "get_available_models"
    /\ Return(GetAvailableModels(settings.keys))

\* CostTracker.calculate_chat_cost(model_id, input_tokens, output_tokens)
CallCalculateChatCost ==
    /\ call.pc = "pending" /\ call.fn = "calculate_chat_cost"
    /\ Return(CalculateChatCost(call.args[1], call.args[2], call.args[3]))

InitCalls ==
    /\ a_prov = "" /\ a_backend = <<>> /\ a_pc = "off" /\ a_out = <<>> /\ a_rest = <<>>
    /\ call \in Calls
    /\ settings \in [max_daily_spend_usd : {0}, keys : SUBSET Providers]
    /\ InitStore
    /\ compare = NoComparison

NextCalls ==
    \/ CallGetProvider
    \/ CallGetAvailableModels
    \/ CallCalculateChatCost

SpecCalls == InitCalls /\ [][NextCalls]_vars

(***************************************************************************)
(* SpecUnpriced: the cost of a model the pricing book does not list, in a  *)
(* call of calculate_chat_cost and in a chat turn (sonar routes to         *)
(* Perplexity and has no pricing entry; gpt-4o is priced).                 *)
(***************************************************************************)
InitUnpriced ==
    /\ a_prov = "" /\ a_backend = <<>> /\ a_pc = "off" /\ a_out = <<>> /\ a_rest = <<>>
    /\ call \in {c \in CostCalls : GetModelPricing(c.args[1]) = None}
    /\ settings = [max_daily_spend_usd |-> 0, keys |-> Providers]
    /\ InitStore
    /\ compare = NoComparison

NextUnpriced ==
    \/ TurnNext("c1", {"sonar", "gpt-4o"}, {FALSE}, "turn", MaxTurns)
    \/ CallCalculateChatCost

SpecUnpriced == InitUnpriced /\ [][NextUnpriced]_vars

(***************************************************************************)
(* SpecStore: the methods of ConversationService and log_cost called in    *)
(* any order on up to MaxStoreConvs conversations while the seconds pass.  *)
(* call holds the last call made, its arguments and what it returned.      *)
(***************************************************************************)
MaxStoreConvs == 2  \* conversations created in a run
MaxStoreMsgs == 2   \* messages added in a run
MaxStoreCosts == 2  \* cost entries logged in a run
MaxSec == 1         \* the last second the clock reaches

Returned(fn, args, result) == [fn |-> fn, args |-> args, pc |-> "returned", result |-> result]

besideStore == <<a_prov, a_backend, a_pc, a_out, a_rest, settings, turn, requests, faults, spend_peak, compare>>

\* list_conversations: the rows with their message_count (the order of the
\* list, updated_at DESC, is left out)
ListConversations(convs, msgs) ==
    {[id |-> c, row |-> convs[c], message_count |-> GetMessageCount(msgs, c)] : c \in DOMAIN convs}

\* GET /conversations/{id}: 404 when get_conversation returns None
GetConversation(convs, cid) ==
    IF cid \in DOMAIN convs THEN [status |-> 200, body |-> Some(convs[cid])]
    ELSE [status |-> 404, body |-> None]

CreateInputs == {<<"gpt-4o", "Test Chat", "">>, <<"sonar", "New Conversation", "Be concise.">>}

MessageInputs == {<<"user", "Hello", None, 0, 0, 0>>, <<"assistant", "Hi there!", Some("gpt-4o"), 10, 5, 7500>>}

CallCreateConversation ==
    /\ ids.conv < MaxStoreConvs
    /\ \E in \in CreateInputs :
         /\ CreateConversation(in[1], in[2], in[3])
         /\ call' = Returned("create_conversation", in, ids.conv + 1)
    /\ UNCHANGED <<clock, messages, cost_log>> /\ UNCHANGED besideStore

CallListConversations ==
    /\ call' = Returned("list_conversations", <<>>, ListConversations(conversations, messages))
    /\ UNCHANGED <<clock, storeVars, ids>> /\ UNCHANGED besideStore

CallGetConversation ==
    /\ \E cid \in 1..MaxStoreConvs :
         call' = Returned("get_conversation", <<cid>>, GetConversation(conversations, cid))
    /\ UNCHANGED <<clock, storeVars, ids>> /\ UNCHANGED besideStore

CallAddMessage ==
    /\ ids.msg < MaxStoreMsgs
    /\ \E cid \in DOMAIN conversations, in \in MessageInputs :
         /\ AddMessage(cid, in[1], in[2], in[3], in[4], in[5], in[6], FALSE)
         /\ call' = Returned("add_message", <<cid>>, ids.msg + 1)
    /\ UNCHANGED <<clock, cost_log>> /\ UNCHANGED besideStore

CallGetConversationMessages ==
    /\ \E cid \in DOMAIN conversations :
         \E rows \in MessageOrders(messages, cid) :
           call' = Returned("get_conversation_messages", <<cid>>, rows)
    /\ UNCHANGED <<clock, storeVars, ids>> /\ UNCHANGED besideStore

CallGetMessageCount ==
    /\ \E cid \in 1..MaxStoreConvs :
         call' = Returned("get_message_count", <<cid>>, GetMessageCount(messages, cid))
    /\ UNCHANGED <<clock, storeVars, ids>> /\ UNCHANGED besideStore

CallLogCost ==
    /\ ids.cost < MaxStoreCosts
    /\ \E ref \in {None} \cup {Some(c) : c \in DOMAIN conversations} :
         /\ LogCost(ref, None, "gpt-4o", "chat", 10, 5, 7500)
         /\ call' = Returned("log_cost", <<ref>>, <<>>)
    /\ UNCHANGED <<clock, conversations, messages>> /\ UNCHANGED besideStore

CallDeleteConversation ==
    /\ \E cid \in DOMAIN conversations :
         /\ messages' = DeleteMessagesOf(messages, cid)
         /\ cost_log' = DeleteCostLogOf(cost_log, cid)
         /\ conversations' = DeleteConversationRow(conversations, cid)
         /\ call' = Returned("delete_conversation", <<cid>>, <<>>)
    /\ UNCHANGED <<clock, ids>> /\ UNCHANGED besideStore

\* a second passes
Tick ==
    /\ clock.sec < MaxSec
    /\ clock' = [clock EXCEPT !.sec = @ + 1]
    /\ UNCHANGED <<call, storeVars, ids>> /\ UNCHANGED besideStore

InitStoreCalls ==
    /\ NoAdapterRun
    /\ settings = [max_daily_spend_usd |-> 0, keys |-> Providers]
    /\ InitStore
    /\ compare = NoComparison

NextStore ==
    \/ CallCreateConversation
    \/ CallListConversations
    \/ CallGetConversation
    \/ CallAddMessage
    \/ CallGetConversationMessages
    \/ CallGetMessageCount
    \/ CallLogCost
    \/ CallDeleteConversation
    \/ Tick

SpecStore == InitStoreCalls /\ [][NextStore]_vars

(***************************************************************************)
(* Properties.                                                             *)
(***************************************************************************)
FinalCount(chunks) == Len(SelectSeq(chunks, LAMBDA c : c.is_final))

Count(events, name) == Len(SelectSeq(events, LAMBDA e : e.event = name))

\* C1: every invocation of an adapter's stream_chat, once over on any path
\* (answer, empty answer, upstream timeout, upstream exception), has yielded
\* exactly one chunk with is_final set, and that chunk is the last one.
ExactlyOneFinalLast ==
    a_pc \in {"done", "raised"} =>
        /\ FinalCount(a_out) = 1
        /\ a_out[Len(a_out)].is_final

\* today's cost_log total, entry by entry
RECURSIVE SpentOn(_, _)
SpentOn(day, k) ==
    IF k = 0 THEN 0
    ELSE SpentOn(day, k - 1) + (IF cost_log[k].created_at.day = day
                                THEN cost_log[k].cost_usd ELSE 0)

LeavesGate(t) == turn[t].pc = "gate" /\ turn'[t].pc # "gate"

\* C2: with a cap above 0 the gate rejects a turn exactly when the sum of
\* cost_usd over today's cost_log entries, read at the gate check, is at least
\* the cap; with a cap of 0 or less the gate rejects no turn.
GateRejectsIffCapReached ==
    [][\A t \in Clients :
         LeavesGate(t) =>
           (turn'[t].pc = "rejected"
              <=> /\ settings.max_daily_spend_usd > 0
                  /\ SpentOn(clock.day, Len(cost_log)) >= settings.max_daily_spend_usd)]_vars

\* a turn rejected with today's total exactly at the cap
RejectedAtTheCap ==
    \E t \in Clients :
        /\ turn[t].pc = "rejected"
        /\ settings.max_daily_spend_usd > 0
        /\ SpentOn(clock.day, Len(cost_log)) = settings.max_daily_spend_usd

BudgetError == ErrorEvent("Daily budget")

HasBudgetError(r) == \E k \in DOMAIN r.events : r.events[k] = BudgetError

\* C3: a turn the budget gate rejects emits one error event and no other
\* event, does nothing more, and the rejection writes no conversation, no
\* message and no cost entry, whatever the other turns are doing.
GateRejectionHasNoEffect ==
    [][\A t \in Clients :
         /\ (HasBudgetError(turn'[t]) /\ ~HasBudgetError(turn[t])) =>
              /\ turn[t].pc = "gate" /\ turn'[t].pc = "rejected"
              /\ turn'[t].events = <<BudgetError>>
              /\ <<conversations, messages, cost_log, ids>>'
                   = <<conversations, messages, cost_log, ids>>
         /\ (turn[t].pc = "rejected" /\ turn'[t] # turn[t]) =>
              /\ turn'[t] = IdleTurn
              /\ <<conversations, messages, cost_log, ids>>'
                   = <<conversations, messages, cost_log, ids>>]_vars

\* a turn is rejected while another client's turn is under way
RejectedBesideRunningTurn ==
    \E t, u \in Clients :
        /\ t # u
        /\ turn[t].pc = "rejected" /\ turn[t].events = <<BudgetError>>
        /\ turn[u].pc \in {"stream", "logcost", "titlecheck", "title"}

\* C4: once today's cost_log total has reached the cap, every gate check made
\* later that day rejects, whatever API operations happened in between.
CapReachedBlocksTheDay ==
    [][\A t \in Clients :
         (LeavesGate(t) /\ settings.max_daily_spend_usd > 0
            /\ spend_peak >= settings.max_daily_spend_usd)
         => turn'[t].pc = "rejected"]_vars

EventRank(e) ==
    CASE e.event = "conversation" -> 1
      [] e.event = "sources" -> 2
      [] e.event = "token" -> 3
      [] e.event = "web_sources" -> 4
      [] e.event = "usage" -> 5
      [] e.event = "done" -> 6
      [] OTHER -> 7

\* the events come in the order of the pipeline, only token events repeat
InPipelineOrder(events) ==
    \A k \in 1..(Len(events) - 1) :
        \/ EventRank(events[k]) < EventRank(events[k + 1])
        \/ events[k].event = "token" /\ events[k + 1].event = "token"

\* C5: a turn that completes without error has emitted, in this order, at most
\* one conversation event (one iff the request had no conversation id), at
\* most one sources event, any number of token events, at most one
\* web_sources event, one usage event and one done event, and nothing after
\* done.
CompletedTurnEventOrder ==
    \A t \in Clients :
        LET events == turn[t].events
        IN /\ Count(events, "done") > 0 => events[Len(events)].event = "done"
           /\ turn[t].pc = "done" =>
                /\ InPipelineOrder(events)
                /\ Count(events, "conversation")
                     = (IF turn[t].request.conversation_id = None THEN 1 ELSE 0)
                /\ Count(events, "usage") = 1
                /\ Count(events, "done") = 1
                /\ Count(events, "error") = 0

\* a completed turn that emitted every kind of event of a normal turn
CompletedTurnWithEveryEvent ==
    \E t \in Clients :
        /\ turn[t].pc = "done"
        /\ \A name \in {"conversation", "sources", "token", "web_sources", "usage", "done"} :
               Count(turn[t].events, name) > 0

\* C6: a turn in which a step raised has emitted exactly one error event, and
\* it is the turn's last event: no token, web_sources, usage or done event
\* follows it; no turn emits both done and error.
ErrorIsSingleAndLast ==
    \A t \in Clients :
        LET events == turn[t].events
        IN /\ turn[t].pc = "error" => Count(events, "error") = 1
           /\ Count(events, "error") <= 1
           /\ Count(events, "error") = 1 => events[Len(events)].event = "error"
           /\ ~(Count(events, "error") > 0 /\ Count(events, "done") > 0)

\* the upstream raised after tokens had gone out
ErrorAfterTokens ==
    \E t \in Clients :
        /\ turn[t].pc = "error"
        /\ Count(turn[t].events, "token") > 0
        /\ turn[t].events[Len(turn[t].events)].event = "error"

MessagesOf(cid) == SelectSeq(messages, LAMBDA m : m.conversation_id = cid)

\* C7: each conversation's total_input_tokens, total_output_tokens and
\* total_cost_usd are the sums of input_tokens, output_tokens and cost_usd over
\* its stored messages: the insert and the rollup of an add_message are
\* committed together.
TotalsEqualMessageSums ==
    \A cid \in DOMAIN conversations :
        /\ conversations[cid].total_input_tokens = SumOver(MessagesOf(cid), "input_tokens")
        /\ conversations[cid].total_output_tokens = SumOver(MessagesOf(cid), "output_tokens")
        /\ conversations[cid].total_cost_usd = SumOver(MessagesOf(cid), "cost_usd")

\* a conversation holding the billed answers of two turns
ConversationWithTwoBilledAnswers ==
    \E cid \in DOMAIN conversations :
        /\ Len(SelectSeq(MessagesOf(cid), LAMBDA m : m.cost_usd > 0)) = 2
        /\ conversations[cid].total_cost_usd = 15000

ChatEntriesOf(m) ==
    {k \in DOMAIN cost_log : /\ cost_log[k].operation = "chat"
                             /\ cost_log[k].message_id = Some(m.id)}

\* C8: when no chat turn is in flight, every stored assistant message with a
\* cost above zero has exactly one cost entry with operation chat that
\* references it, with the same model id and the same token counts.
BilledMessageHasOneCostEntry ==
    (\A t \in Clients : turn[t].pc = "idle") =>
        \A k \in DOMAIN messages :
            LET m == messages[k]
            IN (m.role = "assistant" /\ m.cost_usd > 0) =>
                 /\ Cardinality(ChatEntriesOf(m)) = 1
                 /\ \A j \in ChatEntriesOf(m) :
                        /\ Some(cost_log[j].model_id) = m.model_id
                        /\ cost_log[j].input_tokens = m.input_tokens
                        /\ cost_log[j].output_tokens = m.output_tokens

\* C9: a comparison run creates no conversation, inserts no message and
\* appends no cost entry: once all its slots have terminated, the Conversation
\* Store and the Cost Log are as they were before it started (here: empty).
ComparisonLeavesStoreUntouched ==
    compare.pc = "over" =>
        /\ DOMAIN conversations = {}
        /\ messages = <<>>
        /\ cost_log = <<>>

\* what slot i has read of its own stream
ReadEvents(i) == SubSeq(turn[SlotClient[i]].events, 1, compare.read[i])

RECURSIVE TokenText(_)
TokenText(events) ==
    IF events = <<>> THEN ""
    ELSE (IF Head(events).event = "token" THEN Head(events).text ELSE "")
         \o TokenText(Tail(events))

Named(events, name) == SelectSeq(events, LAMBDA e : e.event = name)

\* the thread of slot i ended without having read done or error
EndedByException(i) ==
    /\ ~compare.alive[i]
    /\ turn[SlotClient[i]].pc # "idle"
    /\ Named(ReadEvents(i), "done") = <<>>
    /\ Named(ReadEvents(i), "error") = <<>>

\* C10: in a comparison of 2 or 3 slots every buffer holds what its own
\* stream delivered and nothing else: the text of its token events, its usage,
\* its web sources, and an error only if its own stream failed (an error
\* event or a transport exception); a slot whose stream ended with done has
\* terminated without error, whatever happened to the other slots.
SlotsAreIsolated ==
    compare.pc \in {"poll", "over"} =>
        /\ Len(compare.models) \in 2..3
        /\ \A i \in DOMAIN compare.models :
             LET own == ReadEvents(i)
                 result == compare.results[i]
             IN /\ result.text = TokenText(own)
                /\ result.usage = (IF Named(own, "usage") = <<>> THEN None
                                   ELSE Some(Named(own, "usage")[1]))
                /\ result.web_sources = (IF Named(own, "web_sources") = <<>> THEN <<>>
                                         ELSE Named(own, "web_sources")[1].citations)
                /\ result.error = (IF Named(own, "error") # <<>>
                                   THEN Some(Named(own, "error")[1].error)
                                   ELSE IF EndedByException(i)
                                   THEN Some("transport error")
                                   ELSE None)
                /\ Named(own, "done") # <<>> => ~compare.alive[i] /\ result.error = None

\* a comparison is over: one slot failed, another holds its text, usage and
\* web sources
OneSlotFailedOneComplete ==
    /\ compare.pc = "over"
    /\ \E i, j \in DOMAIN compare.models :
         /\ compare.results[i].error # None
         /\ compare.results[j].error = None
         /\ compare.results[j].text # ""
         /\ compare.results[j].usage # None
         /\ compare.results[j].web_sources # <<>>

\* the thread of slot i has returned: it read done, it read error, or the
\* transport raised
SlotTerminated(i) ==
    \/ Named(ReadEvents(i), "done") # <<>>
    \/ Named(ReadEvents(i), "error") # <<>>
    \/ compare.results[i].error = Some("transport error")

AllSlotsTerminated == \A i \in DOMAIN compare.models : SlotTerminated(i)

\* C11: the polling loop of a comparison is left exactly when every slot has
\* terminated (by done, by error or by exception): it is never left while some
\* slot is still running, and once every slot has terminated it is left.
LoopExitsExactlyWhenAllTerminated ==
    /\ [](compare.pc = "over" => AllSlotsTerminated)
    /\ [][compare.pc = "poll" /\ compare'.pc = "over" => AllSlotsTerminated]_vars
    /\ (compare.pc = "poll" /\ AllSlotsTerminated) ~> (compare.pc = "over")

\* the loop has been left with one slot ended by done, one by error and one
\* by an exception of the transport
LoopLeftAfterDoneErrorException ==
    /\ compare.pc = "over"
    /\ \E i, j, k \in DOMAIN compare.models :
         /\ Named(ReadEvents(i), "done") # <<>>
         /\ Named(ReadEvents(j), "error") # <<>>
         /\ compare.results[k].error = Some("transport error")
         /\ Named(ReadEvents(k), "error") = <<>>

\* the upstream call of the turn's adapter failed: the adapter raised, or it
\* was Perplexity's and it put its explanation in the stream
UpstreamFailed(r) ==
    \/ r.raised
    \/ \E k \in DOMAIN r.events :
         /\ r.events[k].event = "token"
         /\ r.events[k].text \in {TimeoutText, ErrorText("API key invalid")}

\* C12: when the upstream call of the turn's adapter times out or raises, for
\* any of the four adapters, the turn (its store untouched from outside, no
\* storage failure) is streamed as a normal turn: a token event, then a usage
\* event with zero input and output tokens, then done, and no error event.
UpstreamFailureIsStreamedAsNormalTurn ==
    \A t \in Clients :
      LET r == turn[t]
          usage == Named(r.events, "usage")
      IN (/\ r.pc \in {"done", "error"}
          /\ UpstreamFailed(r)
          /\ faults = 0
          /\ ForeignKeyOK(conversations, r.conversation_id))
         => /\ Named(r.events, "error") = <<>>
            /\ Named(r.events, "token") # <<>>
            /\ Len(usage) = 1
            /\ usage[1].input_tokens = 0 /\ usage[1].output_tokens = 0
            /\ r.events[Len(r.events)].event = "done"
            /\ r.events[Len(r.events) - 1].event = "usage"

\* C13: when the client disconnects while the turn's tokens are being
\* streamed (the conversation still there, no storage failure), the adapter is
\* aborted, the assistant message is stored with the text accumulated so
\* far, and the turn's cost entry is written.
DisconnectStillPersists ==
    \A t \in Clients :
      LET r == turn[t]
      IN (/\ r.pc = "cancelled"
          /\ Named(r.events, "token") # <<>>
          /\ faults = 0
          /\ ForeignKeyOK(conversations, r.conversation_id))
         => /\ r.rest = <<>>
            /\ \E k \in DOMAIN messages :
                 /\ messages[k].conversation_id = r.conversation_id[1]
                 /\ messages[k].role = "assistant"
                 /\ messages[k].content = r.full_response
                 /\ ChatEntriesOf(messages[k]) # {}

\* turn t has stored its user message and not yet its assistant message
BetweenInserts(t) == turn[t].pc \in {"history", "stream"}

\* in this step turn u stores a message
InsertsMessage(u) ==
    /\ turn[u].pc \in {"adduser", "stream"}
    /\ turn'[u] # turn[u]
    /\ Len(messages') = Len(messages) + 1

\* in this step turn t reads the stored history into its message list
AssemblesHistory(t) == turn[t].pc = "history" /\ turn'[t].pc = "stream"

\* C14: a conversation has a single writer: while a turn is between its
\* user-message insert and its assistant-message insert no other turn stores
\* a message in that conversation, and no turn assembles its history while
\* another turn on the same conversation is between its inserts.
SingleWriterPerConversation ==
    [][\A t, u \in Clients :
         (/\ t # u
          /\ BetweenInserts(t)
          /\ turn[u].conversation_id = turn[t].conversation_id)
         => /\ ~InsertsMessage(u)
            /\ ~(BetweenInserts(u) /\ AssemblesHistory(t))]_vars

\* C15: the cost log is append-only: whatever an API operation does, every
\* cost entry written before it is still there afterwards with the same
\* fields.
CostLogIsAppendOnly ==
    [][\A k \in DOMAIN cost_log :
         \E j \in DOMAIN cost_log' : cost_log'[j] = cost_log[k]]_vars

\* in this step the turn's cost write fails: the turn leaves the cost step and
\* no entry has been written
CostWriteFails(t) ==
    /\ turn[t].pc = "logcost"
    /\ turn'[t] # turn[t]
    /\ cost_log' = cost_log

\* C16 as stated: a failed cost write neither undoes nor aborts the turn: the
\* assistant message and the rollup stay, and the turn goes on to usage and
\* done instead of ending with an error event.
CostWriteFailureDoesNotAbort ==
    [][\A t \in Clients :
         CostWriteFails(t) =>
           /\ messages' = messages /\ conversations' = conversations
           /\ turn'[t].pc # "error"
           /\ Named(turn'[t].events, "error") = <<>>]_vars

\* C16, amended: a failed cost write does not undo the turn: the assistant
\* message and the conversation rollup already committed stay as they are;
\* the turn ends there with one error event as its last event, and emits
\* neither usage nor done.
CostWriteFailureKeepsMessageEndsInError ==
    [][\A t \in Clients :
         CostWriteFails(t) =>
           /\ messages' = messages /\ conversations' = conversations
           /\ ForeignKeyOK(conversations, turn[t].conversation_id) =>
                \E k \in DOMAIN messages' :
                  /\ messages'[k].id = turn[t].msg_id[1]
                  /\ messages'[k].role = "assistant"
                  /\ messages'[k].cost_usd = turn[t].cost
           /\ turn'[t].pc = "error"
           /\ turn'[t].events = Append(turn[t].events, turn'[t].events[Len(turn'[t].events)])
           /\ Count(turn'[t].events, "error") = 1
           /\ turn'[t].events[Len(turn'[t].events)].event = "error"
           /\ Count(turn'[t].events, "usage") = 0
           /\ Count(turn'[t].events, "done") = 0]_vars

\* a turn has ended in an error at its cost write: its billed assistant
\* message is stored, its cost is in the rollup, and it has no cost entry
CostWriteFailedMessageKept ==
    \E t \in Clients :
      LET r == turn[t]
      IN /\ r.pc = "error" /\ r.msg_id # None /\ r.cost > 0
         /\ faults = 1
         /\ \E k \in DOMAIN messages :
              /\ messages[k].id = r.msg_id[1]
              /\ ChatEntriesOf(messages[k]) = {}
         /\ ForeignKeyOK(conversations, r.conversation_id)
         /\ conversations[r.conversation_id[1]].total_cost_usd >= r.cost

\* the turn's assistant message and its cost entry are in the store
TurnWritesRemain(r) ==
    \E k \in DOMAIN messages :
      /\ messages[k].id = r.msg_id[1]
      /\ messages[k].role = "assistant"
      /\ ChatEntriesOf(messages[k]) # {}

\* C17: when the auto-title step of a turn fails (routing error, adapter error
\* or failure of the title update), the failure is swallowed: the turn adds no
\* error event and changes nothing in the store, goes on to emit usage and
\* then done, and the assistant message and cost entry it wrote remain (as
\* long as the conversation is not deleted).
AutoTitleFailureIsSwallowed ==
    /\ [](\A t \in Clients :
            (turn[t].pc = "titlefail" /\ ForeignKeyOK(conversations, turn[t].conversation_id))
            => TurnWritesRemain(turn[t]))
    /\ [][\A t \in Clients :
           /\ (turn[t].pc = "titlefail" /\ turn'[t] # turn[t])
              => /\ turn'[t].pc = "tail"
                 /\ turn'[t].events = turn[t].events
                 /\ Named(turn'[t].events, "error") = <<>>
                 /\ UNCHANGED storeVars
           /\ (turn[t].pc = "tail" /\ turn'[t] # turn[t])
              => /\ turn'[t].pc = "done"
                 /\ Len(turn'[t].events) = Len(turn[t].events) + 2
                 /\ turn'[t].events[Len(turn[t].events) + 1].event = "usage"
                 /\ turn'[t].events[Len(turn[t].events) + 2].event = "done"
                 /\ Named(turn'[t].events, "error") = <<>>
                 /\ UNCHANGED storeVars]_vars

\* a turn that created its conversation is complete although its title
\* update failed: usage and done are its last events, the title is the one
\* from creation, the assistant message and its cost entry are stored
TitleUpdateFailedTurnComplete ==
    \E t \in Clients :
      LET r == turn[t]
      IN /\ r.pc = "done" /\ r.is_new /\ r.title # ""
         /\ faults = 1
         /\ r.events[Len(r.events)].event = "done"
         /\ r.events[Len(r.events) - 1].event = "usage"
         /\ Named(r.events, "error") = <<>>
         /\ ForeignKeyOK(conversations, r.conversation_id)
         /\ conversations[r.conversation_id[1]].title = "New Conversation"
         /\ TurnWritesRemain(r)

\* the title a finished turn finds on the conversation it created
TitleAfter(r) == conversations[r.conversation_id[1]].title

FirstExchangeComplete(r) ==
    /\ r.pc = "done" /\ r.is_new
    /\ r.conversation_id[1] \in DOMAIN conversations

\* C18 as stated: after the first complete exchange of a conversation created
\* by the turn its title is the text the title call generated (and the title
\* of creation when the call gave no text), and every title the auto-title
\* step writes is non-empty and at most 50 characters long.
TitleIsGeneratedText ==
    \A t \in Clients :
      LET r == turn[t]
      IN /\ r.pc = "title" => Len(r.title) \in 1..TitleLimit
         /\ FirstExchangeComplete(r) =>
              TitleAfter(r) = (IF r.title # "" THEN r.title ELSE "New Conversation")

\* C18, amended: the auto-title step of a turn sets the conversation's title
\* to the text the title call generated when the call gives text and the
\* title update succeeds; when the call fails or gives no text, or the update
\* fails, the step leaves the title as it was; every title the step writes
\* is non-empty and at most 50 characters long.
TitleStepWritesGeneratedText ==
    [][\A t \in Clients :
         LET r == turn[t]
             cid == r.conversation_id[1]
         IN /\ (r.pc = "title" /\ turn'[t] # r) =>
                 /\ Len(r.title) \in 1..TitleLimit
                 /\ IF turn'[t].pc = "tail" /\ cid \in DOMAIN conversations
                    THEN /\ DOMAIN conversations' = DOMAIN conversations
                         /\ conversations'[cid].title = r.title
                    ELSE conversations' = conversations
            /\ (r.pc \in {"titlecheck", "titlefail"} /\ turn'[t] # r) =>
                 conversations' = conversations]_vars

\* a first exchange is complete and the conversation carries a generated
\* title that was cut to 50 characters
TitledWithCutText ==
    \E t \in Clients :
      /\ FirstExchangeComplete(turn[t])
      /\ TitleAfter(turn[t]) = turn[t].title
      /\ Len(turn[t].title) = TitleLimit
      /\ Named(turn[t].events, "done") # <<>>

\* position of the first citation of cites that carries the URL, 0 if none
FirstWithUrl(cites, url) ==
    IF \E k \in DOMAIN cites : cites[k].url = url
    THEN CHOOSE k \in DOMAIN cites :
           cites[k].url = url /\ \A j \in 1..(k - 1) : cites[j].url # url
    ELSE 0

\* list holds, in first-seen order, the first citation of each non-empty URL
\* of all, and nothing else
FirstSeenUnique(list, all) ==
    /\ \A i \in DOMAIN list :
         /\ list[i].url # ""
         /\ FirstWithUrl(all, list[i].url) > 0
         /\ list[i] = all[FirstWithUrl(all, list[i].url)]
    /\ \A i, j \in DOMAIN list :
         i < j => FirstWithUrl(all, list[i].url) < FirstWithUrl(all, list[j].url)
    /\ \A k \in DOMAIN all :
         all[k].url # "" => \E i \in DOMAIN list : list[i].url = all[k].url

\* C19: a turn emits web_sources only if its adapter returned at least one
\* citation, at most once, after its last token event and before usage; the
\* list it carries has no entry with an empty URL, each URL at most once, in
\* the order in which the URLs were first seen in the stream.
WebSourcesUniqueAfterTokens ==
    \A t \in Clients :
      LET r == turn[t]
      IN /\ Count(r.events, "web_sources") <= 1
         /\ \A k \in DOMAIN r.events :
              r.events[k].event = "web_sources" =>
                /\ r.web_citations # <<>>
                /\ \A j \in DOMAIN r.events :
                     /\ r.events[j].event = "token" => j < k
                     /\ r.events[j].event = "usage" => j > k
                /\ FirstSeenUnique(r.events[k].citations, r.web_citations)

\* a complete turn whose adapter cited one URL twice: web_sources carries two
\* entries out of three or more citations, between the token and usage
CitedTwiceEmittedOnce ==
    \E t \in Clients :
      LET r == turn[t]
          ws == Named(r.events, "web_sources")
      IN /\ r.pc = "done"
         /\ Len(ws) = 1
         /\ Len(ws[1].citations) = 2
         /\ Len(r.web_citations) >= 3
         /\ Named(r.events, "token") # <<>>
         /\ Named(r.events, "usage") # <<>>

\* C20: when the Perplexity backend call times out or raises, the adapter
\* yields one explanatory text chunk and then one final chunk with zero input
\* and output tokens, nothing else, and raises nothing to its caller.
PerplexityFailureYieldsTextThenFinal ==
    (a_prov = "perplexity" /\ a_backend.fail # "none") =>
        /\ a_pc # "raised"
        /\ Len(a_out) <= 2
        /\ a_pc = "done" => Len(a_out) = 2
        /\ Len(a_out) >= 1 =>
             /\ ~a_out[1].is_final
             /\ a_out[1].text = (IF a_backend.fail = "timeout" THEN TimeoutText
                                 ELSE ErrorText(a_backend.error))
        /\ Len(a_out) = 2 =>
             /\ a_out[2].is_final /\ a_out[2].text = ""
             /\ a_out[2].input_tokens = 0 /\ a_out[2].output_tokens = 0

\* the adapter has returned after a backend error: the error's text in a text
\* chunk, then the zero-usage final chunk
PerplexityErrorExplained ==
    /\ a_prov = "perplexity" /\ a_backend.fail = "error"
    /\ a_pc = "done"
    /\ Len(a_out) = 2
    /\ a_out[1].text = "*Error from Perplexity: API key invalid*"
    /\ a_out[2].is_final

\* the response has no content: no choice, no message, a null or an empty
\* content
NoContent(response) ==
    \/ response.choices = <<>>
    \/ response.choices[1].message = None
    \/ response.choices[1].message[1].content \in {None, Some("")}

\* the citation items the response carries, whichever way
RawItems(response) ==
    (IF response.citations = None THEN <<>> ELSE response.citations[1])
    \o (IF response.model_extra.citations = None THEN <<>>
        ELSE response.model_extra.citations[1])

HasUsableUrl(response) ==
    \E k \in DOMAIN RawItems(response) :
      RawItems(response)[k].kind \in {"str", "dict"} /\ RawItems(response)[k].url # ""

PerplexityAnsweredWithoutContent ==
    /\ a_prov = "perplexity" /\ a_backend.fail = "none"
    /\ NoContent(a_backend.response)
    /\ a_pc = "done"

\* C21 as stated: for every backend response without content the Perplexity
\* adapter yields exactly two chunks: the fallback text, then a final chunk
\* with input_tokens 0, output_tokens 0 and no citations.
NoContentYieldsFallbackAndZeroFinal ==
    PerplexityAnsweredWithoutContent =>
        /\ Len(a_out) = 2
        /\ ~a_out[1].is_final /\ a_out[1].text = NoResponseText
        /\ a_out[2].is_final
        /\ a_out[2].input_tokens = 0 /\ a_out[2].output_tokens = 0
        /\ a_out[2].citations = <<>>

\* C21, amended: for every backend response without content the Perplexity
\* adapter yields exactly two chunks: the fallback text, then a final chunk
\* that carries the usage counts and the citations of the response; the
\* counts are 0 and the list is empty when the response has none.
NoContentYieldsFallbackAndResponseFinal ==
    PerplexityAnsweredWithoutContent =>
        LET usage == a_backend.response.usage
        IN /\ Len(a_out) = 2
           /\ ~a_out[1].is_final /\ a_out[1].text = NoResponseText
           /\ a_out[2].is_final /\ a_out[2].text = ""
           /\ a_out[2].input_tokens =
                (IF usage = None \/ usage[1].prompt_tokens = None THEN 0
                 ELSE usage[1].prompt_tokens[1])
           /\ a_out[2].output_tokens =
                (IF usage = None \/ usage[1].completion_tokens = None THEN 0
                 ELSE usage[1].completion_tokens[1])
           /\ (a_out[2].citations = <<>>) <=> ~HasUsableUrl(a_backend.response)

\* the adapter has answered a response with a null content, usage and one
\* cited URL: the fallback text, then the final chunk with that usage and URL
NullContentWithUsageAndCitation ==
    /\ PerplexityAnsweredWithoutContent
    /\ a_backend.response.choices = <<[message |-> Some([content |-> None])]>>
    /\ a_out[1].text = NoResponseText
    /\ a_out[2].input_tokens = 10 /\ a_out[2].output_tokens = 5
    /\ Len(a_out[2].citations) = 1

\* the catalog lists the id with a provider that has a credential
Routable(keys, model_id) ==
    \E k \in DOMAIN ModelsConfig :
      ModelsConfig[k].id = model_id /\ ModelsConfig[k].provider \in keys

\* C22: routing a model id succeeds exactly when the id is in the catalog and
\* its entry's provider has a credential; it fails with the unknown-model
\* error for an id outside the catalog and with the provider-not-configured
\* error for a provider without credential; get_available_models returns
\* exactly the catalog entries whose id routes, in catalog order.
RoutingFollowsCatalogAndCredentials ==
    /\ (call.pc = "returned" /\ call.fn = "_get_provider") =>
         LET model_id == call.args[1]
             res == call.result
         IN /\ res.ok <=> Routable(settings.keys, model_id)
            /\ res.ok => res.provider \in settings.keys
            /\ model_id \notin CatalogIds => res.error = "Unknown model"
            /\ (model_id \in CatalogIds /\ ~Routable(settings.keys, model_id))
                 => res.error = "Provider not configured"
    /\ (call.pc = "returned" /\ call.fn = "get_available_models") =>
         /\ \A k \in DOMAIN call.result : GetProvider(settings.keys, call.result[k].id).ok
         /\ \A k \in DOMAIN ModelsConfig :
              GetProvider(settings.keys, ModelsConfig[k].id).ok
              => \E j \in DOMAIN call.result : call.result[j] = ModelsConfig[k]
         /\ \A i, j \in DOMAIN call.result :
              i < j => \E k, l \in DOMAIN ModelsConfig :
                         /\ k < l
                         /\ call.result[i] = ModelsConfig[k]
                         /\ call.result[j] = ModelsConfig[l]

\* routing a catalog model has failed for want of a credential, with other
\* providers configured
CatalogModelNotConfigured ==
    /\ call.pc = "returned" /\ call.fn = "_get_provider"
    /\ call.args[1] \in CatalogIds
    /\ settings.keys # {}
    /\ ~call.result.ok /\ call.result.error = "Provider not configured"

\* no section of the pricing book lists the model
Unpriced(model_id) ==
    \A p \in DOMAIN PricingConfig : model_id \notin DOMAIN PricingConfig[p]

\* C23: for a model the pricing book does not list calculate_chat_cost
\* returns 0 whatever the token counts, and a chat turn on a routable model
\* without pricing is not turned into an error once the model has answered
\* (an error event follows no token event): having answered, the turn has
\* stored its assistant message and a cost entry, both with cost 0, and its
\* events end with usage (cost 0) and done.
UnpricedModelCostsZeroAndTurnCompletes ==
    /\ (call.pc = "returned" /\ Unpriced(call.args[1])) => call.result = 0
    /\ \A t \in Clients :
         LET r == turn[t]
         IN (Unpriced(r.request.model_id) /\ GetProvider(settings.keys, r.request.model_id).ok)
            => /\ r.pc = "error" => \A e \in DOMAIN r.events : r.events[e].event # "token"
               /\ r.pc \in {"titlecheck", "titlefail", "title", "tail", "done"} =>
                    \E k \in DOMAIN messages, c \in DOMAIN cost_log :
                      /\ messages[k].id = r.msg_id[1]
                      /\ messages[k].role = "assistant" /\ messages[k].cost_usd = 0
                      /\ cost_log[c].message_id = r.msg_id
                      /\ cost_log[c].operation = "chat" /\ cost_log[c].cost_usd = 0
               /\ r.pc = "done" =>
                    /\ r.events[Len(r.events)].event = "done"
                    /\ r.events[Len(r.events) - 1].event = "usage"
                    /\ r.events[Len(r.events) - 1].cost_usd = 0

\* a sonar turn that used 10 and 5 tokens is complete with a cost entry of 0,
\* and the call on 1000 and 500 tokens has returned
UnpricedTurnBilledZero ==
    /\ call.pc = "returned" /\ call.args[2] = 1000 /\ call.args[3] = 500
    /\ \E t \in Clients, c \in DOMAIN cost_log :
         /\ turn[t].pc = "done" /\ turn[t].request.model_id = "sonar"
         /\ turn[t].input_tokens = 10 /\ turn[t].output_tokens = 5
         /\ cost_log[c].message_id = turn[t].msg_id
         /\ cost_log[c].input_tokens = 10 /\ cost_log[c].cost_usd = 0

\* the rates of a priced model, in 1e-9 USD per token
RatesOf(model_id) ==
    PricingConfig[CHOOSE p \in DOMAIN PricingConfig : model_id \in DOMAIN PricingConfig[p]][model_id]

\* cost (in 1e-8 USD) is the nearest multiple of 1e-8 USD to nano (in 1e-9
\* USD), the even one of two equally near
NearestEven(cost, nano) ==
    /\ 10 * cost - nano \in -5..5
    /\ (10 * cost - nano \in {-5, 5}) => cost % 2 = 0

\* C24: for every priced model and all token counts calculate_chat_cost
\* returns in/1,000,000 times the input rate plus out/1,000,000 times the
\* output rate, rounded to 8 decimal places; gpt-4o with 1000 and 500 tokens
\* costs 0.0075.
ChatCostIsRatesTimesTokensRounded ==
    (call.pc = "returned" /\ call.fn = "calculate_chat_cost" /\ ~Unpriced(call.args[1])) =>
        LET rates == RatesOf(call.args[1])
            inp == call.args[2]
            out == call.args[3]
        IN /\ NearestEven(call.result, inp * rates.input + out * rates.output)
           /\ (call.args = <<"gpt-4o", 1000, 500>>) => call.result = 750000

\* the cost of 1000 and 500 tokens of gpt-4o has been calculated
Gpt4oCostCalculated ==
    /\ call.pc = "returned" /\ call.fn = "calculate_chat_cost"
    /\ call.args = <<"gpt-4o", 1000, 500>> /\ call.result = 750000

\* the row of conversation id carries the given model id, title and prompt
RowAsGiven(row, given) ==
    /\ row.model_id = given[1] /\ row.title = given[2] /\ row.system_prompt = given[3]

\* C25: right after create_conversation, list and get return a row for the
\* new id with the title, model id and system prompt that were given; right
\* after delete_conversation the id is absent from the list and get answers
\* 404; a get answers 404 exactly for an id that has no row, and a list
\* holds exactly the ids that have one.
CreatedIsListedDeletedIsNotFound ==
    /\ call.fn = "create_conversation" =>
         /\ \E e \in ListConversations(conversations, messages) :
              e.id = call.result /\ RowAsGiven(e.row, call.args)
         /\ GetConversation(conversations, call.result).status = 200
         /\ RowAsGiven(GetConversation(conversations, call.result).body[1], call.args)
    /\ call.fn = "delete_conversation" =>
         /\ \A e \in ListConversations(conversations, messages) : e.id # call.args[1]
         /\ GetConversation(conversations, call.args[1]).status = 404
    /\ call.fn = "get_conversation" =>
         /\ call.result.status = 404 <=> call.args[1] \notin DOMAIN conversations
         /\ call.result.status = 200 => call.result.body = Some(conversations[call.args[1]])
    /\ call.fn = "list_conversations" =>
         {e.id : e \in call.result} = DOMAIN conversations

\* a get of a conversation that was created and then deleted answered 404
DeletedConversationNotFound ==
    /\ call.fn = "get_conversation" /\ call.result.status = 404
    /\ call.args[1] <= ids.conv

\* the cost entries that reference ref (a conversation, or none)
CostEntriesOf(log, ref) == SelectSeq(log, LAMBDA e : e.conversation_id = ref)

\* C26: a delete_conversation step removes the conversation, all of its
\* messages and all cost entries that reference it, and leaves every other
\* conversation row (totals included), its messages and its cost entries,
\* and the cost entries that reference no conversation, unchanged.
DeleteRemovesOnlyItsConversation ==
    [][(call'.fn = "delete_conversation" /\ call'.args[1] \in DOMAIN conversations) =>
         LET cid == call'.args[1]
         IN /\ DOMAIN conversations' = DOMAIN conversations \ {cid}
            /\ \A k \in DOMAIN messages' : messages'[k].conversation_id # cid
            /\ \A k \in DOMAIN cost_log' : cost_log'[k].conversation_id # Some(cid)
            /\ \A o \in DOMAIN conversations \ {cid} :
                 /\ conversations'[o] = conversations[o]
                 /\ GetConversationMessages(messages', o) = GetConversationMessages(messages, o)
                 /\ CostEntriesOf(cost_log', Some(o)) = CostEntriesOf(cost_log, Some(o))
            /\ CostEntriesOf(cost_log', None) = CostEntriesOf(cost_log, None)
            /\ Len(messages') = Len(messages) - GetMessageCount(messages, cid)
            /\ Len(cost_log') = Len(cost_log) - Len(CostEntriesOf(cost_log, Some(cid)))]_vars

\* a conversation with a message and a cost entry was deleted while another
\* conversation keeps its message and its cost entry
DeletedBesideKeptConversation ==
    /\ call.fn = "delete_conversation"
    /\ ids.msg = 2 /\ Len(messages) = 1
    /\ ids.cost = 2 /\ Len(cost_log) = 1
    /\ \E o \in DOMAIN conversations :
         /\ GetMessageCount(messages, o) = 1
         /\ Len(CostEntriesOf(cost_log, Some(o))) = 1
         /\ conversations[o].total_cost_usd > 0

ListedCount(convs, msgs, cid) ==
    (CHOOSE e \in ListConversations(convs, msgs) : e.id = cid).message_count

\* C28: for a conversation that exists before and after a step, the count
\* reported by get_message_count and the message_count of list_conversations
\* both grow by exactly one in an add_message step on that conversation and
\* stay the same in every other step, so n adds raise them by n whatever is
\* done to other conversations in between.
MessageCountGrowsByOnePerAdd ==
    [][\A cid \in DOMAIN conversations \cap DOMAIN conversations' :
         LET added == IF ids'.msg # ids.msg /\ call'.args[1] = cid THEN 1 ELSE 0
         IN /\ GetMessageCount(messages', cid) = GetMessageCount(messages, cid) + added
            /\ ListedCount(conversations', messages', cid)
                 = ListedCount(conversations, messages, cid) + added]_vars

\* a message was added to one of two conversations that hold a message each
AddedBesideOtherConversation ==
    /\ call.fn = "add_message" /\ ids.msg = 2
    /\ \E a, b \in DOMAIN conversations :
         /\ a # b
         /\ GetMessageCount(messages, a) = 1 /\ ListedCount(conversations, messages, a) = 1
         /\ GetMessageCount(messages, b) = 1

\* the URLs of the backend's citation entries, in the order the adapter reads them
BackendUrls ==
    IF a_prov = "google"
    THEN LET webs == Flatten([k \in DOMAIN a_backend.chunks |-> a_backend.chunks[k].grounding])
         IN [k \in DOMAIN webs |-> OrEmpty(webs[k].uri)]
    ELSE [k \in DOMAIN RawItems(a_backend.response) |-> RawItems(a_backend.response)[k].url]

\* position of the first occurrence of url in urls
FirstAt(urls, url) ==
    CHOOSE k \in DOMAIN urls : urls[k] = url /\ \A j \in 1..(k - 1) : urls[j] # url

\* C29: the citation list of the final chunk of the Gemini and of the
\* Perplexity adapter has no two entries with the same URL and no entry with
\* an empty URL, and its entries come in the order in which their URLs were
\* first seen in the backend response.
FinalCitationsUniqueByUrl ==
    a_prov \in {"google", "perplexity"} =>
        \A c \in DOMAIN a_out :
            a_out[c].is_final =>
                LET urls == CitationUrls(a_out[c].citations)
                IN /\ \A i, j \in DOMAIN urls : i # j => urls[i] # urls[j]
                   /\ \A i \in DOMAIN urls : urls[i] # "" /\ InSeq(urls[i], BackendUrls)
                   /\ \A i, j \in DOMAIN urls :
                        i < j => FirstAt(BackendUrls, urls[i]) < FirstAt(BackendUrls, urls[j])

\* C29 for the Perplexity adapter alone
PerplexityFinalCitationsUniqueByUrl ==
    a_prov = "perplexity" => FinalCitationsUniqueByUrl

\* the last non-zero count of the field across the backend chunks, 0 if none
LastNonZero(chunks, field) ==
    LET seen == {k \in DOMAIN chunks :
                    /\ chunks[k].usage_metadata # None
                    /\ OrZero(chunks[k].usage_metadata[1][field]) # 0}
    IN IF seen = {} THEN 0
       ELSE OrZero(chunks[CHOOSE k \in seen : \A j \in seen : j <= k].usage_metadata[1][field])

\* C30: the final chunk of the Gemini adapter carries, for input and for
\* output tokens, the last non-zero count seen across the backend chunks; a
\* later chunk with zero or missing counts does not overwrite it.
GeminiFinalKeepsLastNonZeroCounts ==
    (a_prov = "google" /\ a_backend.fail = "none") =>
        \A c \in DOMAIN a_out :
            a_out[c].is_final =>
                /\ a_out[c].input_tokens = LastNonZero(a_backend.chunks, "prompt_token_count")
                /\ a_out[c].output_tokens = LastNonZero(a_backend.chunks, "candidates_token_count")

\* the stored user and assistant rows of a conversation, in insert order
StoredExchange(msgs, cid) ==
    SelectSeq(GetConversationMessages(msgs, cid), LAMBDA m : m.role \in {"user", "assistant"})

\* C31: the message list a turn passes to the adapter starts with the one
\* system message, goes on with all stored user and assistant messages of
\* the conversation in insert order, and ends with the user message of the
\* current request, which the list holds once.
AdapterGetsHistoryInInsertOrder ==
    [][\A t \in Clients :
         (turn[t].pc = "history" /\ turn'[t].pc = "stream") =>
            LET ms == turn'[t].messages
                rows == StoredExchange(messages, turn[t].conversation_id[1])
            IN /\ Len(ms) = Len(rows) + 1
               /\ ms[1].role = "system"
               /\ \A k \in 2..Len(ms) :
                    ms[k] = [role |-> rows[k - 1].role, content |-> rows[k - 1].content]
               /\ ms[Len(ms)] = [role |-> "user", content |-> turn[t].request.message]]_vars

\* C32: each chunk of the adapter with a non-empty text produces exactly one
\* token event with that text, in the order of the chunks, a chunk without
\* text produces none, and in a completed turn the content of the stored
\* assistant message is the concatenation of the texts of the turn's token
\* events in the order of their emission.
TokensMirrorDeltasAndMessage ==
    /\ [][\A t \in Clients :
            (turn[t].pc = "stream" /\ turn'[t].pc = "stream" /\ turn'[t] # turn[t]) =>
               turn'[t].events =
                  IF Head(turn[t].rest).text # ""
                  THEN Append(turn[t].events, [event |-> "token", text |-> Head(turn[t].rest).text])
                  ELSE turn[t].events]_vars
    /\ [](\A t \in Clients :
            turn[t].pc = "done" =>
               \A k \in DOMAIN messages :
                  messages[k].id = turn[t].msg_id[1] =>
                     /\ messages[k].role = "assistant"
                     /\ messages[k].content = TokenText(turn[t].events))

\* a completed turn whose two token events make up the stored content
TwoTokensStoredAsOneContent ==
    \E t \in Clients, k \in DOMAIN messages :
        /\ turn[t].pc = "done" /\ Count(turn[t].events, "token") = 2
        /\ messages[k].id = turn[t].msg_id[1]
        /\ Len(messages[k].content) = 2
        /\ messages[k].content = TokenText(turn[t].events)

\* chat.py 189 for turn r: the conversation is new or holds at most 2 messages
TitlingDue(r, msgs) ==
    r.is_new \/ Len(GetConversationMessages(msgs, r.conversation_id[1])) <= 2

SameUsage(row, e) ==
    /\ row.input_tokens = e.input_tokens /\ row.output_tokens = e.output_tokens
    /\ row.cost_usd = e.cost_usd

\* C34: the input_tokens, output_tokens, cost_usd and model_id of a turn's
\* usage event equal those stored on the turn's assistant message and on its
\* cost entry, and the token counts are those of the adapter's final chunk:
\* a turn's counts change only when it takes a final chunk from the stream,
\* and then to that chunk's counts.
UsageEventMatchesStoreAndFinal ==
    /\ [](\A t \in Clients : \A u \in DOMAIN turn[t].events :
            LET r == turn[t]
                e == r.events[u]
            IN e.event = "usage" =>
                 /\ e.input_tokens = r.input_tokens /\ e.output_tokens = r.output_tokens
                 /\ e.model_id = r.request.model_id
                 /\ \A k \in DOMAIN messages :
                      messages[k].id = r.msg_id[1] =>
                         SameUsage(messages[k], e) /\ messages[k].model_id = Some(e.model_id)
                 /\ \A c \in DOMAIN cost_log :
                      cost_log[c].message_id = r.msg_id =>
                         SameUsage(cost_log[c], e) /\ cost_log[c].model_id = e.model_id)
    /\ [][\A t \in Clients :
            (turn[t].pc # "idle" /\ turn'[t].pc # "idle") =>
               LET r == turn[t]
                   final == r.pc = "stream" /\ turn'[t].pc = "stream" /\ turn'[t] # r
                            /\ Head(r.rest).is_final
               IN /\ final => /\ turn'[t].input_tokens = Head(r.rest).input_tokens
                               /\ turn'[t].output_tokens = Head(r.rest).output_tokens
                  /\ ~final => /\ turn'[t].input_tokens = r.input_tokens
                                /\ turn'[t].output_tokens = r.output_tokens]_vars

\* a complete turn reported 10 and 5 tokens at a cost, and its assistant
\* message and its cost entry are stored with the same numbers
UsageReportedAsStored ==
    \E t \in Clients, k \in DOMAIN messages, c \in DOMAIN cost_log :
        LET r == turn[t]
        IN /\ r.pc = "done" /\ Named(r.events, "usage") # <<>>
           /\ Named(r.events, "usage")[1].input_tokens = 10
           /\ Named(r.events, "usage")[1].cost_usd > 0
           /\ messages[k].id = r.msg_id[1] /\ SameUsage(messages[k], Named(r.events, "usage")[1])
           /\ cost_log[c].message_id = r.msg_id
           /\ SameUsage(cost_log[c], Named(r.events, "usage")[1])

\* the step by which turn t arrives at pc `to`
Enters(t, to) == turn[t].pc # to /\ turn'[t].pc = to

\* the step appends one row to the sequence rows
Appended(rows, rowsAfter) == Len(rowsAfter) = Len(rows) + 1 /\ SubSeq(rowsAfter, 1, Len(rows)) = rows

\* C35: within a turn the user message is committed before the adapter is
\* invoked, and usage and done are emitted only after the assistant message
\* (with the conversation rollup) and then the cost entry have been committed:
\* the turn reaches each of these points only through the step that commits
\* the row; and at done the exchange and its cost entry are in the store for
\* as long as the conversation has not been deleted.
CommitsPrecedeAdapterAndDone ==
    /\ [][\A t \in Clients :
            LET r == turn[t]
                s == turn'[t]
                cid == r.conversation_id[1]
            IN /\ Enters(t, "history") =>
                    /\ r.pc = "adduser" /\ Appended(messages, messages')
                    /\ messages'[Len(messages')].role = "user"
                    /\ messages'[Len(messages')].conversation_id = cid
                    /\ messages'[Len(messages')].content = r.request.message
               /\ Enters(t, "stream") => r.pc = "history"
               /\ Enters(t, "logcost") =>
                    /\ r.pc = "stream" /\ Appended(messages, messages')
                    /\ messages'[Len(messages')].role = "assistant"
                    /\ messages'[Len(messages')].conversation_id = cid
                    /\ Some(messages'[Len(messages')].id) = s.msg_id
                    /\ conversations'[cid].total_input_tokens
                          = conversations[cid].total_input_tokens + r.input_tokens
                    /\ conversations'[cid].total_output_tokens
                          = conversations[cid].total_output_tokens + r.output_tokens
                    /\ conversations'[cid].total_cost_usd
                          = conversations[cid].total_cost_usd + s.cost
               /\ Enters(t, "titlecheck") =>
                    /\ r.pc = "logcost" /\ Appended(cost_log, cost_log')
                    /\ cost_log'[Len(cost_log')].message_id = r.msg_id
                    /\ cost_log'[Len(cost_log')].conversation_id = r.conversation_id
                    /\ cost_log'[Len(cost_log')].cost_usd = r.cost
               /\ (s.pc \in {"title", "titlefail", "tail"} /\ r.pc \notin {"title", "titlefail", "tail"})
                     => r.pc = "titlecheck"
               /\ (Count(s.events, "usage") > Count(r.events, "usage")
                      \/ Count(s.events, "done") > Count(r.events, "done"))
                     => r.pc = "tail"]_vars
    /\ [](\A t \in Clients :
            LET r == turn[t]
            IN (r.pc = "done" /\ r.conversation_id[1] \in DOMAIN conversations) =>
                 /\ \E i, j \in DOMAIN messages :
                      /\ i < j
                      /\ messages[i].conversation_id = r.conversation_id[1]
                      /\ messages[i].role = "user" /\ messages[i].content = r.request.message
                      /\ messages[j].conversation_id = r.conversation_id[1]
                      /\ messages[j].role = "assistant" /\ Some(messages[j].id) = r.msg_id
                 /\ \E c \in DOMAIN cost_log :
                      cost_log[c].message_id = r.msg_id /\ cost_log[c].cost_usd = r.cost)

\* the client has received done, and the store holds the user message, the
\* assistant message with its text and the cost entry of the turn
DoneWithExchangeInStore ==
    \E t \in Clients, i \in DOMAIN messages, j \in DOMAIN messages, c \in DOMAIN cost_log :
        LET r == turn[t]
        IN /\ r.pc = "done" /\ Count(r.events, "done") = 1 /\ r.cost > 0
           /\ i < j /\ messages[i].role = "user"
           /\ messages[i].conversation_id = r.conversation_id[1]
           /\ Some(messages[j].id) = r.msg_id /\ messages[j].content # ""
           /\ cost_log[c].message_id = r.msg_id

\* the request of turn r names a model outside the catalog, or one whose
\* provider has no credential
Unroutable(r) ==
    /\ r.pc # "idle"
    /\ \/ r.request.model_id \notin CatalogIds
       \/ ModelProviderMap(r.request.model_id)[1] \notin settings.keys

\* the conversation rows are as before but for the updated_at of row cid
OnlyTouched(convs, convsAfter, cid) ==
    /\ DOMAIN convsAfter = DOMAIN convs
    /\ \A c \in DOMAIN convs :
         IF c = cid THEN convsAfter[c] = [convs[c] EXCEPT !.updated_at = convsAfter[c].updated_at]
         ELSE convsAfter[c] = convs[c]

\* C36: a turn whose model id is unknown to the router or whose provider has
\* no credential emits one error event and no token, usage or done event; it
\* writes no assistant message and no cost entry, and what its steps change
\* in the store is the conversation row it creates and its user message
\* (with the updated_at of the conversation the message is added to).
UnroutableTurnLeavesOnlyUserMessage ==
    /\ [](\A t \in Clients :
            LET r == turn[t]
            IN Unroutable(r) =>
                 /\ r.pc \in {"gate", "create", "getconv", "adduser", "history", "error", "rejected"}
                 /\ Count(r.events, "token") = 0 /\ Count(r.events, "usage") = 0
                 /\ Count(r.events, "done") = 0
                 /\ Count(r.events, "error") = (IF r.pc \in {"error", "rejected"} THEN 1 ELSE 0)
                 /\ r.msg_id = None)
    /\ [][\A t \in Clients :
            LET r == turn[t]
                cid == r.conversation_id[1]
            IN (Unroutable(r) /\ turn'[t] # r) =>
                 /\ cost_log' = cost_log
                 /\ \/ messages' = messages /\ conversations' = conversations
                    \/ /\ r.pc = "create" /\ r.request.conversation_id = None
                       /\ messages' = messages
                       /\ DOMAIN conversations' = DOMAIN conversations \cup {ids.conv + 1}
                       /\ \A c \in DOMAIN conversations : conversations'[c] = conversations[c]
                    \/ /\ r.pc = "adduser" /\ Appended(messages, messages')
                       /\ messages'[Len(messages')].role = "user"
                       /\ messages'[Len(messages')].conversation_id = cid
                       /\ OnlyTouched(conversations, conversations', cid)]_vars

\* a turn on a catalog model whose provider has no credential has ended in an
\* error, after it created its conversation and stored its user message
UncredentialedTurnFailed ==
    \E t \in Clients, k \in DOMAIN messages :
        LET r == turn[t]
        IN /\ Unroutable(r) /\ r.pc = "error" /\ r.request.model_id \in CatalogIds
           /\ r.is_new /\ r.conversation_id[1] \in DOMAIN conversations
           /\ messages[k].conversation_id = r.conversation_id[1] /\ messages[k].role = "user"
           /\ Count(r.events, "error") = 1 /\ Count(r.events, "conversation") = 1

\* the request of turn r names a conversation that is not in the store
NamesMissingConversation(r) ==
    /\ r.pc # "idle" /\ r.request.conversation_id # None
    /\ r.request.conversation_id[1] \notin DOMAIN conversations

\* C37: a turn that names a conversation id that does not exist emits exactly
\* one error event and persists nothing: no step of the turn creates a
\* conversation, inserts a message, changes a conversation's totals or
\* writes a cost entry, and the turn ends at its user-message insert (or at
\* the gate before it) with the error as its only event.
MissingConversationPersistsNothing ==
    [][\A t \in Clients :
         LET r == turn[t]
             s == turn'[t]
         IN (NamesMissingConversation(r) /\ s # r) =>
              /\ conversations' = conversations /\ messages' = messages
              /\ cost_log' = cost_log
              /\ r.pc \in {"gate", "getconv", "adduser"} =>
                    /\ r.events = <<>>
                    /\ \/ s.pc \in {"getconv", "adduser"} /\ s.events = <<>>
                       \/ /\ s.pc \in {"error", "rejected"}
                          /\ Len(s.events) = 1 /\ s.events[1].event = "error"
              /\ r.pc = "adduser" => s.pc = "error"
              /\ r.pc \in {"error", "rejected"} => s.pc = "idle"]_vars

\* a turn on a missing conversation has failed at its user-message insert,
\* beside a conversation that holds messages
MissingConversationTurnFailed ==
    \E t \in Clients :
        LET r == turn[t]
        IN /\ NamesMissingConversation(r) /\ r.pc = "error"
           /\ r.events = <<ErrorEvent("FOREIGN KEY constraint failed")>>
           /\ messages # <<>>
           /\ \A k \in DOMAIN messages : messages[k].conversation_id # r.request.conversation_id[1]
           /\ \A c \in DOMAIN cost_log : cost_log[c].conversation_id # r.request.conversation_id

\* the conversation rows are as before but for the title and the updated_at
\* of row cid
OnlyRetitled(convs, convsAfter, cid) ==
    /\ DOMAIN convsAfter = DOMAIN convs
    /\ \A c \in DOMAIN convs :
         IF c = cid
         THEN convsAfter[c] = [convs[c] EXCEPT !.title = convsAfter[c].title,
                                               !.updated_at = convsAfter[c].updated_at]
         ELSE convsAfter[c] = convs[c]

\* C38: the auto-title call of a turn inserts no message, appends no cost
\* entry and leaves the conversation's token and cost totals alone: the steps
\* of a turn from its title check to its tail change nothing in the store
\* but the title and the updated_at of the turn's conversation.
AutoTitleChangesOnlyTitle ==
    [][\A t \in Clients :
         LET r == turn[t]
         IN (r.pc \in {"titlecheck", "title", "titlefail"} /\ turn'[t] # r) =>
              /\ messages' = messages /\ cost_log' = cost_log
              /\ OnlyRetitled(conversations, conversations', r.conversation_id[1])
              /\ r.pc # "title" => conversations' = conversations]_vars

\* a turn has titled its conversation; the conversation holds the two
\* messages and the totals of the one exchange, and the ledger its one entry
TitledWithOneExchangeBooked ==
    \E t \in Clients :
        LET r == turn[t]
            cid == r.conversation_id[1]
        IN /\ r.pc = "tail" /\ r.title # "" /\ cid \in DOMAIN conversations
           /\ conversations[cid].title = r.title
           /\ r.input_tokens > 0 /\ r.cost > 0
           /\ conversations[cid].total_input_tokens = r.input_tokens
           /\ conversations[cid].total_cost_usd = r.cost
           /\ GetMessageCount(messages, cid) = 2
           /\ Len(cost_log) = 1

\* C39: the Gemini adapter yields no chunk until the backend iteration has
\* ended, and if the backend raises at any point of the iteration the
\* adapter yields nothing at all: text the backend produced before the
\* failure is never emitted.
GeminiYieldsOnlyAfterBackendEnded ==
    /\ [](a_pc = "collect" => a_out = <<>>)
    /\ [](a_backend.fail # "none" => a_out = <<>> /\ a_pc \in {"collect", "raised"})
    /\ [][a_out' # a_out => a_pc = "run" /\ a_backend.fail = "none"]_vars

\* the backend raised after it had produced a text, and the adapter has
\* ended without a chunk
GeminiTextLostOnFailure ==
    /\ a_prov = "google" /\ a_pc = "raised" /\ a_backend.fail = "error"
    /\ \E k \in DOMAIN a_backend.chunks : a_backend.chunks[k].text = "a"
    /\ a_out = <<>>

\* turn r is past its route, has taken no token counts from a stream that
\* ends without raising, and has no final chunk ahead of it
NoUsageSeen(r) ==
    /\ r.pc \in {"stream", "logcost", "titlecheck", "title", "titlefail", "tail"}
    /\ ~r.raised
    /\ r.input_tokens = 0 /\ r.output_tokens = 0
    /\ FinalCount(r.rest) = 0

\* row carries no tokens and no cost
ZeroUsage(row) == row.input_tokens = 0 /\ row.output_tokens = 0 /\ row.cost_usd = 0

\* the error of turn s comes from the store, not from the stream
StoreError(s) ==
    /\ s.pc = "error"
    /\ s.events[Len(s.events)].error \in {"database is locked", "FOREIGN KEY constraint failed"}

\* C40: a turn whose adapter stream ends without a final chunk still
\* completes: the assistant message is stored with zero tokens and zero cost,
\* a cost entry with zero cost is written, usage reports zero tokens and done
\* follows.  A turn enters its stream with zero counts; step by step, such a
\* turn with no final chunk ahead goes on to done with zeros everywhere,
\* unless the store fails or the client goes away.
StreamWithoutFinalBooksZero ==
    /\ [](\A t \in Clients :
            (NoUsageSeen(turn[t]) /\ turn[t].pc # "stream") => turn[t].cost = 0)
    /\ [][\A t \in Clients :
            LET r == turn[t]
                s == turn'[t]
            IN /\ Enters(t, "stream") => s.input_tokens = 0 /\ s.output_tokens = 0
               /\ (NoUsageSeen(r) /\ s # r) =>
                    /\ NoUsageSeen(s) \/ s.pc \in {"done", "cancelled"} \/ StoreError(s)
                    /\ (r.pc = "stream" /\ r.rest = <<>> /\ ~r.raised /\ s.pc = "logcost") =>
                          /\ Appended(messages, messages')
                          /\ messages'[Len(messages')].role = "assistant"
                          /\ messages'[Len(messages')].content = r.full_response
                          /\ ZeroUsage(messages'[Len(messages')])
                    /\ (r.pc = "logcost" /\ s.pc = "titlecheck") =>
                          /\ Appended(cost_log, cost_log')
                          /\ cost_log'[Len(cost_log')].message_id = r.msg_id
                          /\ ZeroUsage(cost_log'[Len(cost_log')])
                    /\ r.pc = "tail" =>
                          /\ s.pc = "done" /\ Len(s.events) = Len(r.events) + 2
                          /\ s.events[Len(r.events) + 1].event = "usage"
                          /\ ZeroUsage(s.events[Len(r.events) + 1])
                          /\ s.events[Len(r.events) + 2].event = "done"]_vars

\* an OpenAI stream that carried text and no usage chunk: the turn is done,
\* its usage event, its assistant message and its cost entry all say zero
TextWithoutUsageBookedZero ==
    \E t \in Clients, k \in DOMAIN messages, c \in DOMAIN cost_log :
        LET r == turn[t]
        IN /\ r.pc = "done" /\ r.request.model_id = "gpt-4o" /\ r.full_response = "a"
           /\ Named(r.events, "usage") # <<>> /\ ZeroUsage(Named(r.events, "usage")[1])
           /\ r.events[Len(r.events)].event = "done"
           /\ Some(messages[k].id) = r.msg_id /\ ZeroUsage(messages[k])
           /\ messages[k].content = "a"
           /\ cost_log[c].message_id = r.msg_id /\ ZeroUsage(cost_log[c])

====
